---- MODULE Spec2Model ----
(***************************************************************************)
(* Model of the backtest execution engine (coinbase/src/backtest/engine.py) *)
(* and of the paper simulator's broker (coinbase/src/sim/paper_sim.py).     *)
(*                                                                         *)
(* Numbers.  The program computes in Python floats.  Here every float is a *)
(* fixed-point number n / Scale held as the integer n; a product and a     *)
(* quotient are rounded to the nearest representable value, as IEEE-754    *)
(* rounds them, sums and differences are exact.  Timestamps are the step   *)
(* numbers 1..NBars of the aligned index.                                  *)
(***************************************************************************)
EXTENDS Integers, Sequences, FiniteSets, TLC

\* ------------------------------------------------------------ numbers

Scale == 100

Max(a, b) == IF a >= b THEN a ELSE b
Min(a, b) == IF a <= b THEN a ELSE b
Abs(a) == IF a >= 0 THEN a ELSE 0 - a

\* a / b rounded to the nearest integer (b > 0)
RDiv(a, b) == (2 * a + b) \div (2 * b)

\* float product and float quotient
Mul(a, b) == RDiv(a * b, Scale)
Div(a, b) == RDiv(a * Scale, b)

\* the literal 1e-9 of the guards max(1e-9, ...): the smallest positive value
Eps == 1

\* ------------------------------------------------------------ bounds

\* number of bars of the aligned index
NBars == 3
\* bars per calendar day
BarsPerDay == 2

\* ------------------------------------------------------------ configuration

Products == <<"A", "B">>
ProductSet == {"A", "B"}

\* ExecModel
fee_bps == 80
slippage_bps == 20
\* RiskModel
initial_cash == 100000
risk_per_trade == 1
min_notional == 2500
\* the cap on open bracket positions of a run configured with one
max_positions == 1
\* BTConfig
enable_trailing == TRUE
trail_atr_mult == 100
breakeven_after_R == 100

PM == "pm_rebalance"
\* the target 1e12 of a PM holding: above every price
TargetInf == 2000000000

\* registered adapters, in registration order
Adapters == <<"donchian_breakout", "pm_rebalance_monthly">>

\* the (product, ATR of its window) an entry adapter may signal on; a provider
\* may deliver a zero or a negative ATR
EntryChoices == {<<"A", 0>>, <<"A", 100>>, <<"B", 100>>, <<"B", -10>>}
\* bars the market-data collaborator may deliver, per product
BarChoices(p) ==
    IF p = "A" THEN {[open |-> 900, close |-> 800], [open |-> 900, close |-> 1000],
                     [open |-> 1100, close |-> 1000], [open |-> 1100, close |-> 1300]}
               ELSE {[open |-> 2000, close |-> 2000]}
\* target weights a portfolio builder may emit (dict order kept)
WeightChoices ==
    { << <<"A", 60>>, <<"B", 40>> >>,
      << <<"B", 50>> >>,
      << <<"B", 50>>, <<"A", 0>> >> }

VARIABLES
    fill_when,     \* cfg.exec_model.fill_when: "close" | "next"
    dfs,           \* DataPortal.dfs: product -> sequence of bars, loaded so far
    t_idx,         \* loop index of run(), 1-based
    pc,            \* position of run(): exits, gather, rebalance, entries, mark, final, done, raised
    port,          \* Portfolio: cash, equity, positions (insertion-ordered), turnover
    trades,        \* BacktestEngine.trades
    eq_curve,      \* BacktestEngine.eq_curve, one value per timestamp
    daily_marks,   \* daily_marks of run(): day -> equity (0: no mark yet)
    signals,       \* signals gathered in the current step
    ad_i,          \* next adapter to call in the gather loop
    sig_i,         \* next signal of the rebalance loop / of the entry loop
    raised_ads,    \* adapters whose on_bar raised in the current step
    adapters,      \* BacktestEngine.adapters, in registration order
    step_log,      \* history: what the current step has done so far, in order
    pb_cash,       \* PaperBroker.cash
    pb_positions,  \* PaperBroker.positions: pid -> Position, NoPos when absent
    pb_log,        \* the rows handed to log_trade, in order
    pb_calls,      \* the calls made on the broker so far: "place", "exit"
    pb_hist,       \* PaperBroker.equity_history
    sim_t,         \* simulate(): position in the index, 1-based
    sim_pc,        \* simulate(): idle, exits, entries, mark, done
    sim_i,         \* simulate(): next product of the entry loop
    sim_prices,    \* simulate(): prices of the current timestamp, pid -> mid
    boot,          \* run_backtest.main(): arguments, position, loaded portal, outcome
    ss_fetch,      \* the module global fetch_candles_df the adapters patch
    th,            \* per engine thread: position, step, what its strategy code read
    state_files,   \* files under STATE_DIR: name -> the run whose data it holds
    last_weights_fp, \* contents of state/pm_last_weights.json
    clock,         \* wall clock: months since the last halving
    built,         \* build_portfolio(): the signals built so far
    met,           \* compute_metrics(): the equity curve handed in, the dict returned
    brk_file,      \* state/brackets.json: the records it holds, in order
    brk_mgr,       \* manage_brackets(): position, the state it loaded, changed
    brk_add,       \* add_bracket(): position, the state it loaded
    brk_hist       \* history: the calls that have returned, and what they wrote

engvars == <<fill_when, dfs, t_idx, pc, port, trades, eq_curve, daily_marks,
             signals, ad_i, sig_i, raised_ads, step_log, adapters>>
pbvars == <<pb_cash, pb_positions, pb_log, pb_calls>>
simvars == <<pb_hist, sim_t, sim_pc, sim_i, sim_prices>>
bootvars == <<boot>>
concvars == <<ss_fetch, th, state_files>>
buildvars == <<last_weights_fp, clock, built>>
metvars == <<met>>
brkvars == <<brk_file, brk_mgr, brk_add, brk_hist>>
vars == <<engvars, pbvars, simvars, bootvars, concvars, buildvars, metvars, brkvars>>

\* ------------------------------------------------------------ sequences

Last(s) == s[Len(s)]
RECURSIVE SeqSum(_)
SeqSum(s) == IF s = <<>> THEN 0 ELSE s[1] + SeqSum(Tail(s))

\* ------------------------------------------------------------ Data portal

\* DataPortal.time_index(): the timestamps 1..NBars
TimeIndexLen == NBars

\* DataPortal.window(product, t): the bars through t
Window(product, t) == SubSeq(dfs[product], 1, t)

Columns == {"open", "close"}

\* BacktestEngine._price_at raises KeyError when it falls through to w[field]
\* with a field that is no column of the frame
PriceAtRaisesIn(d, fw, t, field) ==
    /\ ~(fw = "next" /\ field = "entry" /\ t + 1 <= TimeIndexLen)
    /\ field \notin Columns

PriceAtIn(d, fw, product, t, field) ==
    IF fw = "next" /\ field = "entry" /\ t + 1 <= TimeIndexLen
    THEN Last(SubSeq(d[product], 1, t + 1)).open
    ELSE IF field = "open" THEN Last(SubSeq(d[product], 1, t)).open
         ELSE Last(SubSeq(d[product], 1, t)).close

PriceAtRaises(t, field) == PriceAtRaisesIn(dfs, fill_when, t, field)
PriceAt(product, t, field) == PriceAtIn(dfs, fill_when, product, t, field)

\* prices_now of run(): the close of every product at t
PricesNow(t) == [p \in ProductSet |-> Last(Window(p, t)).close]

\* BacktestEngine._apply_fees_slippage
ApplyFeesSlippage(px, side) ==
    LET bps == RDiv((fee_bps + slippage_bps) * Scale, 10000)
    IN  IF side = "buy" THEN Mul(px, Scale + bps) ELSE Mul(px, Scale - bps)

\* BacktestEngine._size_position
SizePosition(equity, entry, stop) ==
    LET risk_dollar == Mul(equity, risk_per_trade)
        per_unit_risk == Max(Eps, entry - stop)
        units == Div(risk_dollar, per_unit_risk)
    IN  Max(0, units)

\* ------------------------------------------------------------ positions dict

\* Portfolio.positions is a dict keyed by product; here the sequence of its
\* values in insertion order
RECURSIVE Find(_, _)
Find(ps, p) ==
    IF ps = <<>> THEN 0
    ELSE IF Last(ps).product = p THEN Len(ps) ELSE Find(SubSeq(ps, 1, Len(ps) - 1), p)

Has(ps, p) == Find(ps, p) # 0
Get(ps, p) == ps[Find(ps, p)]
\* positions[p] = pos
Put(ps, p, pos) == IF Has(ps, p) THEN [ps EXCEPT ![Find(ps, p)] = pos] ELSE Append(ps, pos)
\* del positions[p] / positions.pop(p)
Del(ps, p) ==
    LET i == Find(ps, p)
    IN  IF i = 0 THEN ps ELSE SubSeq(ps, 1, i - 1) \o SubSeq(ps, i + 1, Len(ps))

Position(product, qty, entry_px, stop_px, target_px, atr, name, ts) ==
    [product |-> product, side |-> "long", qty |-> qty, entry_px |-> entry_px,
     stop_px |-> stop_px, target_px |-> target_px, atr |-> atr, name |-> name,
     opened_ts |-> ts]

TradeRow(ts, product, side, reason, qty, price, name) ==
    [ts |-> ts, product |-> product, side |-> side, reason |-> reason,
     qty |-> qty, price |-> price, name |-> name]

\* Portfolio.valuation: returns the equity, which it also caches in port.equity
RECURSIVE PositionsValue(_, _)
PositionsValue(ps, prices) ==
    IF ps = <<>> THEN 0
    ELSE Mul(ps[1].qty, prices[ps[1].product]) + PositionsValue(Tail(ps), prices)

Valuation(pt, prices) == pt.cash + PositionsValue(pt.positions, prices)

\* ------------------------------------------------------------ trailing and exits

\* a trailing update that follows the price down as well as up
UpdateTrailingLoose(pos, px) ==
    IF pos.name = PM THEN pos
    ELSE IF ~enable_trailing THEN pos
    ELSE LET trail == Mul(trail_atr_mult, pos.atr)
             new_stop == px - trail
             r_gain == Div(px - pos.entry_px, Max(Eps, pos.entry_px - pos.stop_px))
             new_stop2 == IF r_gain >= breakeven_after_R
                          THEN Max(new_stop, pos.entry_px) ELSE new_stop
         IN  [pos EXCEPT !.stop_px = new_stop2]

\* BacktestEngine._update_trailing
UpdateTrailing(pos, px) ==
    IF pos.name = PM THEN pos
    ELSE IF ~enable_trailing THEN pos
    ELSE LET trail == Mul(trail_atr_mult, pos.atr)
             new_stop == Max(pos.stop_px, px - trail)
             r_gain == Div(px - pos.entry_px, Max(Eps, pos.entry_px - pos.stop_px))
             new_stop2 == IF r_gain >= breakeven_after_R
                          THEN Max(new_stop, pos.entry_px) ELSE new_stop
         IN  [pos EXCEPT !.stop_px = new_stop2]

\* the exit test of run() on a position whose stop is already updated:
\* "stop", "target" or "" (stays open)
ExitReason(pos, px) ==
    IF pos.name # PM
    THEN IF px <= pos.stop_px THEN "stop"
         ELSE IF px >= pos.target_px THEN "target" ELSE ""
    ELSE ""

\* an exit filled at the close of the bar
ExitFillPxAtClose(pos, reason, px) == px

\* the price handed to the fill of an exit: the threshold that was crossed
ExitFillPx(pos, reason, px) ==
    IF reason = "stop" THEN pos.stop_px ELSE pos.target_px

\* to_close of run(): (product, fill_px, reason) of every position to close
RECURSIVE ToClose(_, _)
ToClose(ps, prices) ==
    IF ps = <<>> THEN <<>>
    ELSE LET pos == ps[1]
             px == prices[pos.product]
             reason == ExitReason(pos, px)
         IN  (IF reason = "" THEN <<>>
              ELSE << [product |-> pos.product,
                       fill_px |-> ExitFillPx(pos, reason, px),
                       reason |-> reason] >>)
             \o ToClose(Tail(ps), prices)

\* the closing loop of run() over to_close; acc = [port, trades]
RECURSIVE ClosePositions(_, _, _)
ClosePositions(acc, tc, ts) ==
    IF tc = <<>> THEN acc
    ELSE LET c == tc[1]
             ps == acc.port.positions
         IN  IF ~Has(ps, c.product) THEN ClosePositions(acc, Tail(tc), ts)
             ELSE LET pos == Get(ps, c.product)
                      px_eff == ApplyFeesSlippage(c.fill_px, "sell")
                      notional == Mul(pos.qty, px_eff)
                      pt2 == [acc.port EXCEPT !.positions = Del(ps, c.product),
                                              !.cash = @ + notional,
                                              !.turnover = @ + Abs(notional)]
                      tr2 == Append(acc.trades,
                                 TradeRow(ts, c.product, "EXIT", c.reason,
                                          0 - pos.qty, px_eff, pos.name))
                  IN  ClosePositions([port |-> pt2, trades |-> tr2], Tail(tc), ts)

\* step 1 of run(): trailing update of every position, then the exits
ManageExits(pt, tr, prices, ts) ==
    LET ps1 == [i \in 1..Len(pt.positions) |->
                   UpdateTrailing(pt.positions[i], prices[pt.positions[i].product])]
        tc == ToClose(ps1, prices)
    IN  ClosePositions([port |-> [pt EXCEPT !.positions = ps1], trades |-> tr], tc, ts)

\* ------------------------------------------------------------ signals

EntrySignal(name, product, side, entry, stop, target, atr) ==
    [type |-> "entry", name |-> name, product_id |-> product, side |-> side,
     entry |-> entry, stop |-> stop, target |-> target, atr |-> atr,
     target_weights |-> <<>>, error |-> ""]

RebalanceSignal(name, tw) ==
    [type |-> "rebalance", name |-> name, product_id |-> "", side |-> "",
     entry |-> 0, stop |-> 0, target |-> 0, atr |-> 0,
     target_weights |-> tw, error |-> ""]

\* the signal run() appends when an adapter's on_bar raises
ErrorSignal(name) ==
    [type |-> "error", name |-> name, product_id |-> "", side |-> "",
     entry |-> 0, stop |-> 0, target |-> 0, atr |-> 0,
     target_weights |-> <<>>, error |-> "exception"]

\* ------------------------------------------------------------ rebalance

IsPM(ps, p) == Has(ps, p) /\ Get(ps, p).name = PM

\* target_notional of _apply_rebalance_signal: (product, equity * weight), in
\* the order of target_weights, of the products of the universe
RECURSIVE TargetNotional(_, _)
TargetNotional(tw, equity) ==
    IF tw = <<>> THEN <<>>
    ELSE (IF tw[1][1] \in ProductSet
          THEN << <<tw[1][1], Mul(equity, tw[1][2])>> >> ELSE <<>>)
         \o TargetNotional(Tail(tw), equity)

InTarget(tn, p) == \E i \in 1..Len(tn) : tn[i][1] = p

\* a buy leg that fills the whole gap whatever the cash
RebalBuyQtyUncapped(diff, fill_px, cash) == Max(0, Div(diff, fill_px))

\* the quantity a rebalance buy leg fills: the gap, capped by the cash at hand
RebalBuyQty(diff, fill_px, cash) ==
    LET qty == Div(diff, fill_px)
        max_cash == Div(cash, fill_px)
    IN  Max(0, Min(qty, max_cash))

\* "Sell assets not in target": one pass over the products; acc = [port,
\* trades, raised, pm_notional]
RECURSIVE SellNotInTarget(_, _, _, _, _, _, _)
SellNotInTarget(acc, prods, tn, pm_qty, d, fw, t) ==
    IF prods = <<>> \/ acc.raised THEN acc
    ELSE LET p == prods[1]
             ps == acc.port.positions
         IN  IF ~InTarget(tn, p) /\ pm_qty[p] > 0 /\ IsPM(ps, p)
             THEN IF PriceAtRaisesIn(d, fw, t, "entry")
                  THEN [acc EXCEPT !.raised = TRUE]
                  ELSE LET pos == Get(ps, p)
                           fill_px == ApplyFeesSlippage(PriceAtIn(d, fw, p, t, "entry"), "sell")
                           notional == Mul(pos.qty, fill_px)
                           pt2 == [acc.port EXCEPT !.cash = @ + notional,
                                                   !.turnover = @ + Abs(notional),
                                                   !.positions = Del(ps, p)]
                           tr2 == Append(acc.trades,
                                      TradeRow(t, p, "REBAL_SELL_ALL", "", 0 - pos.qty, fill_px, PM))
                       IN  SellNotInTarget([acc EXCEPT !.port = pt2, !.trades = tr2,
                                                       !.pm_notional[p] = 0],
                                           Tail(prods), tn, pm_qty, d, fw, t)
             ELSE SellNotInTarget(acc, Tail(prods), tn, pm_qty, d, fw, t)

\* the buy leg of "Adjust positions towards target"
RebalBuy(acc, p, diff, d, fw, t) ==
    IF PriceAtRaisesIn(d, fw, t, "entry") THEN [acc EXCEPT !.raised = TRUE]
    ELSE LET ps == acc.port.positions
             fill_px == ApplyFeesSlippage(PriceAtIn(d, fw, p, t, "entry"), "buy")
             qty == RebalBuyQty(diff, fill_px, acc.port.cash)
             cost == Mul(qty, fill_px)
         IN  IF cost < min_notional \/ qty <= 0 THEN acc
             ELSE LET ps2 == IF IsPM(ps, p)
                             THEN [ps EXCEPT ![Find(ps, p)].qty = @ + qty]
                             ELSE Put(ps, p, Position(p, qty, fill_px, 0, TargetInf, 0, PM, t))
                      pt2 == [acc.port EXCEPT !.cash = @ - cost,
                                              !.turnover = @ + Abs(cost),
                                              !.positions = ps2]
                      tr2 == Append(acc.trades, TradeRow(t, p, "REBAL_BUY", "", qty, fill_px, PM))
                  IN  [acc EXCEPT !.port = pt2, !.trades = tr2]

\* history of a buy leg: the quantity and notional it asked for, the cash at
\* hand, the fill price and the quantity filled (0: skipped)
BuyLeg(acc, acc2, p, diff, d, fw, t) ==
    LET fill_px == ApplyFeesSlippage(PriceAtIn(d, fw, p, t, "entry"), "buy")
    IN  [product |-> p, want |-> diff, want_qty |-> Div(diff, fill_px),
         cash |-> acc.port.cash, fill_px |-> fill_px,
         qty |-> IF Len(acc2.trades) > Len(acc.trades) THEN Last(acc2.trades).qty ELSE 0]

\* a sell leg that keeps the holding in the mapping whatever is left of it
SellFromKeep(ps, p, qty) == [ps EXCEPT ![Find(ps, p)].qty = @ - qty]

\* positions[p].qty -= qty, and the entry deleted when nothing is left
SellFrom(ps, p, qty) ==
    LET left == Get(ps, p).qty - qty
    IN  IF left <= 0 THEN Del(ps, p)
        ELSE [ps EXCEPT ![Find(ps, p)].qty = left]

\* the sell leg of "Adjust positions towards target"
RebalSell(acc, p, diff, d, fw, t) ==
    LET ps == acc.port.positions
        qty_have == IF IsPM(ps, p) THEN Get(ps, p).qty ELSE 0
    IN  IF qty_have <= 0 THEN acc
        ELSE IF PriceAtRaisesIn(d, fw, t, "entry") THEN [acc EXCEPT !.raised = TRUE]
        ELSE LET fill_px == ApplyFeesSlippage(PriceAtIn(d, fw, p, t, "entry"), "sell")
                 qty == Min(qty_have, Div(Abs(diff), fill_px))
                 got == Mul(qty, fill_px)
             IN  IF got < min_notional \/ qty <= 0 THEN acc
                 ELSE LET ps2 == SellFrom(ps, p, qty)
                          pt2 == [acc.port EXCEPT !.cash = @ + got,
                                                  !.turnover = @ + Abs(got),
                                                  !.positions = ps2]
                          tr2 == Append(acc.trades,
                                     TradeRow(t, p, "REBAL_SELL", "", 0 - qty, fill_px, PM))
                      IN  [acc EXCEPT !.port = pt2, !.trades = tr2]

\* "Adjust positions towards target": one pass over target_notional
RECURSIVE AdjustToTarget(_, _, _, _, _)
AdjustToTarget(acc, tn, d, fw, t) ==
    IF tn = <<>> \/ acc.raised THEN acc
    ELSE LET p == tn[1][1]
             diff == tn[1][2] - acc.pm_notional[p]
             acc2 == IF Abs(diff) < min_notional THEN acc
                     ELSE IF diff > 0 THEN RebalBuy(acc, p, diff, d, fw, t)
                     ELSE RebalSell(acc, p, diff, d, fw, t)
             acc3 == IF Abs(diff) >= min_notional /\ diff > 0 /\ ~acc2.raised
                     THEN [acc2 EXCEPT !.legs = Append(@, BuyLeg(acc, acc2, p, diff, d, fw, t))]
                     ELSE acc2
         IN  AdjustToTarget(acc3, Tail(tn), d, fw, t)

\* BacktestEngine._apply_rebalance_signal; the result is [port, trades, raised]
\* and, as history, the buy legs it went through
ApplyRebalanceSignalIn(pt, tr, s, d, fw, t) ==
    IF s.type # "rebalance"
    THEN [port |-> pt, trades |-> tr, raised |-> FALSE, legs |-> <<>>]
    ELSE
    LET prices == [p \in ProductSet |-> Last(SubSeq(d[p], 1, t)).close]
        equity == Valuation(pt, prices)
        pm_qty == [p \in ProductSet |->
                      IF IsPM(pt.positions, p) THEN Get(pt.positions, p).qty ELSE 0]
        pm_notional == [p \in ProductSet |-> Mul(pm_qty[p], prices[p])]
        tn == TargetNotional(s.target_weights, equity)
        acc0 == [port |-> [pt EXCEPT !.equity = equity], trades |-> tr,
                 raised |-> FALSE, pm_notional |-> pm_notional, legs |-> <<>>]
        acc1 == SellNotInTarget(acc0, Products, tn, pm_qty, d, fw, t)
        acc2 == AdjustToTarget(acc1, tn, d, fw, t)
    IN  [port |-> acc2.port, trades |-> acc2.trades, raised |-> acc2.raised,
         legs |-> acc2.legs]

\* ------------------------------------------------------------ entries

\* positions[p] = Position(...) of step 4 of run()
PlaceEntry(ps, p, pos) == Put(ps, p, pos)

\* whether an entry whose notional is `notional` passes the cash check
CashAllows(notional, cash) == ~(notional > cash)

\* one iteration of the entry loop of run(); the result is [port, trades, raised]
\* and, as history, the branch taken (why)
ApplyEntrySignalIn(pt, tr, s, d, fw, t, prices) ==
    LET same == [port |-> pt, trades |-> tr, raised |-> FALSE, why |-> ""]
        p == s.product_id
    IN  IF s.type # "entry" THEN [same EXCEPT !.why = "type"]
        ELSE IF s.side # "buy" THEN [same EXCEPT !.why = "side"]
        ELSE IF Has(pt.positions, p) /\ Get(pt.positions, p).name # PM
             THEN [same EXCEPT !.why = "held"]
        ELSE IF PriceAtRaisesIn(d, fw, t, "entry")
             THEN [same EXCEPT !.raised = TRUE, !.why = "raise"]
        ELSE LET fill_px == ApplyFeesSlippage(PriceAtIn(d, fw, p, t, "entry"), "buy")
                 eq_now == Valuation(pt, prices)
                 pt1 == [pt EXCEPT !.equity = eq_now]
                 qty == SizePosition(eq_now, fill_px, s.stop)
                 notional == Mul(qty, fill_px)
             IN  IF notional < min_notional \/ qty <= 0
                 THEN [same EXCEPT !.port = pt1, !.why = "small"]
                 ELSE IF ~CashAllows(notional, pt.cash)
                 THEN [same EXCEPT !.port = pt1, !.why = "cash"]
                 ELSE [port |-> [pt1 EXCEPT
                                   !.cash = @ - notional,
                                   !.turnover = @ + Abs(notional),
                                   !.positions = PlaceEntry(pt.positions, p,
                                        Position(p, qty, fill_px, s.stop, s.target,
                                                 s.atr, s.name, t))],
                       trades |-> Append(tr, TradeRow(t, p, "BUY", "", qty, fill_px, s.name)),
                       raised |-> FALSE, why |-> "filled"]

\* ------------------------------------------------------------ adapters

\* what on_bar(t) of an adapter may return: a list of signals, or an exception.
\* Entries are built as DonchianAdapter builds them, from the close at t and
\* an ATR of the window; rebalances as PortfolioRebalanceAdapter builds them.
EntryOutputs(name, t) ==
    { [raised |-> FALSE,
       sigs |-> << EntrySignal(name, c[1], "buy", Last(Window(c[1], t)).close,
                               Last(Window(c[1], t)).close - 2 * c[2],
                               Last(Window(c[1], t)).close + 3 * c[2], c[2]) >>]
      : c \in EntryChoices }

RebalanceOutputs ==
    { [raised |-> FALSE, sigs |-> << RebalanceSignal("pm_rebalance_v2", w) >>]
      : w \in WeightChoices }

AdapterOutputs(name, t) ==
    {[raised |-> FALSE, sigs |-> <<>>], [raised |-> TRUE, sigs |-> <<>>]}
    \cup (IF name = "pm_rebalance_monthly" THEN RebalanceOutputs ELSE EntryOutputs(name, t))

\* the try/except around on_bar in run(): what is appended to signals
OnBarResult(name, out) ==
    IF out.raised THEN << ErrorSignal(name) >> ELSE out.sigs

\* ------------------------------------------------------------ cost model (tcost.py)

\* the square root of a fixed-point number, to the nearest representable value
RECURSIVE FloorSqrt(_, _)
FloorSqrt(y, r) == IF (r + 1) * (r + 1) > y THEN r ELSE FloorSqrt(y, r + 1)
Sqrt(x) ==
    LET y == x * Scale
        r == FloorSqrt(y, 0)
    IN  IF y - r * r > (r + 1) * (r + 1) - y THEN r + 1 ELSE r

\* tcost._bps
Bps(x) == RDiv(x, 10000)

\* tcost.estimate_spread_bps
EstimateSpreadBps(bid, ask) ==
    IF bid <= 0 \/ ask <= 0 THEN 0
    ELSE Div(Mul(20000 * Scale, ask - bid), ask + bid)

\* tcost.impact_bps
ImpactBps(notional_usd, impact_coeff) ==
    IF notional_usd <= 0 THEN 0
    ELSE Mul(impact_coeff, Sqrt(Max(Eps, Div(notional_usd, 10000 * Scale))))

\* tcost.effective_fill_price
EffectiveFillPrice(side, mid, bid, ask, notional_usd, taker_fee, slippage, impact_coeff) ==
    LET spr == EstimateSpreadBps(bid, ask)
        imp == ImpactBps(notional_usd, impact_coeff)
        total_bps == RDiv(spr, 2) + slippage + imp + taker_fee
    IN  IF mid <= 0 THEN 0
        ELSE IF side = "buy" THEN Mul(mid, Scale + Bps(total_bps))
        ELSE Mul(mid, Scale - Bps(total_bps))

\* ------------------------------------------------------------ paper broker (sim/paper_sim.py)

\* SimConfig
sim_initial_cash == 100000
sim_taker_fee_bps == 10000
sim_slippage_bps == 0
sim_impact_coeff == 150

PbProducts == {"A", "B"}
NoPos == [side |-> "none"]

\* bound on the calls made on the broker
MaxCalls == 3

\* inputs of the broker calls
PbSizes == {125, 10000}
PbEntries == {1000}
PbPrices == {800, 900, 1000, 1100, 1200}
PbHalfSpreads == {0, 10}

PbPosition(side, size, fill, stop, target, atr) ==
    [side |-> side, base |-> size, entry |-> fill, stop |-> stop, target |-> target,
     atr |-> atr, setup |-> "sim"]

PbInit ==
    /\ pb_cash = sim_initial_cash
    /\ pb_positions = [pid \in PbProducts |-> NoPos]
    /\ pb_log = <<>>
    /\ pb_calls = <<>>

\* a place that debits the cost whatever the side
PlaceCashDebit(cash, side, cost) == cash - cost

\* the cash after an accepted PaperBroker.place
PlaceCash(cash, side, cost) == IF side = "long" THEN cash - cost ELSE cash + cost

\* PaperBroker.place: [ok, cash, positions]
Place(cash, positions, pid, side, size, entry, stop, target, atr, bid, ask) ==
    LET notional == Mul(size, entry)
        fill == EffectiveFillPrice(IF side = "long" THEN "buy" ELSE "sell", entry, bid, ask,
                                   notional, sim_taker_fee_bps, sim_slippage_bps,
                                   sim_impact_coeff)
        cost == Mul(fill, size)
    IN  IF side = "long" /\ cash < cost
        THEN [ok |-> FALSE, cash |-> cash, positions |-> positions, fill |-> fill]
        ELSE [ok |-> TRUE, cash |-> PlaceCash(cash, side, cost),
              positions |-> [positions EXCEPT
                               ![pid] = PbPosition(side, size, fill, stop, target, atr)],
              fill |-> fill]

\* the exit test of PaperBroker.try_exit: "stop", "target" or ""
PbExitReason(pos, px) ==
    IF pos.side = "long"
    THEN IF px <= pos.stop THEN "stop" ELSE IF px >= pos.target THEN "target" ELSE ""
    ELSE IF px >= pos.stop THEN "stop" ELSE IF px <= pos.target THEN "target" ELSE ""

\* pnl_usd of the row try_exit logs
ExitPnl(pos, fill) ==
    IF pos.side = "long" THEN Mul(fill - pos.entry, pos.base)
    ELSE Mul(pos.entry - fill, pos.base)

\* the cash after the exit of try_exit
ExitCash(cash, pos, fill) ==
    IF pos.side = "long" THEN cash + Mul(fill, pos.base) ELSE cash - Mul(fill, pos.base)

\* PaperBroker.try_exit: [reason, cash, positions, log]
TryExit(cash, positions, log, pid, px, bid, ask) ==
    LET pos == positions[pid]
        same == [reason |-> "", cash |-> cash, positions |-> positions, log |-> log]
    IN  IF pos = NoPos THEN same
        ELSE LET exit_reason == PbExitReason(pos, px)
             IN  IF exit_reason = "" THEN same
                 ELSE LET notional == Mul(pos.base, px)
                          fill == EffectiveFillPrice(
                                      IF pos.side = "long" THEN "sell" ELSE "buy", px, bid, ask,
                                      notional, sim_taker_fee_bps, sim_slippage_bps,
                                      sim_impact_coeff)
                          r == IF pos.side = "long"
                               THEN Div(fill - pos.entry, Max(Eps, pos.entry - pos.stop))
                               ELSE Div(pos.entry - fill, Max(Eps, pos.stop - pos.entry))
                          row == [product_id |-> pid, setup |-> pos.setup, side |-> pos.side,
                                  entry |-> pos.entry, stop |-> pos.stop, target |-> pos.target,
                                  base |-> pos.base,
                                  exit_price |-> fill, exit_reason |-> exit_reason,
                                  r_multiple |-> r, pnl_usd |-> ExitPnl(pos, fill)]
                      IN  [reason |-> exit_reason,
                           cash |-> ExitCash(cash, pos, fill),
                           positions |-> [positions EXCEPT ![pid] = NoPos],
                           log |-> Append(log, row)]

\* a call of PaperBroker.place
PbPlace ==
    /\ Len(pb_calls) < MaxCalls
    /\ \E pid \in PbProducts, side \in {"long", "short"}, size \in PbSizes,
          entry \in PbEntries, h \in PbHalfSpreads :
          LET stop == IF side = "long" THEN entry - 100 ELSE entry + 100
              target == IF side = "long" THEN entry + 200 ELSE entry - 200
              r == Place(pb_cash, pb_positions, pid, side, size, entry, stop, target, 100,
                         entry - h, entry + h)
          IN  /\ pb_cash' = r.cash
              /\ pb_positions' = r.positions
              /\ pb_calls' = Append(pb_calls, [op |-> "place", pid |-> pid, ok |-> r.ok,
                                               side |-> side, size |-> size, fill |-> r.fill])
    /\ UNCHANGED pb_log
    /\ UNCHANGED <<engvars, simvars, bootvars, concvars, buildvars, metvars, brkvars>>

\* a call of PaperBroker.try_exit
PbTryExit ==
    /\ Len(pb_calls) < MaxCalls
    /\ \E pid \in PbProducts, px \in PbPrices, h \in PbHalfSpreads :
          LET r == TryExit(pb_cash, pb_positions, pb_log, pid, px, px - h, px + h)
          IN  /\ pb_cash' = r.cash
              /\ pb_positions' = r.positions
              /\ pb_log' = r.log
              /\ pb_calls' = Append(pb_calls, [op |-> "exit", pid |-> pid, ok |-> r.reason # "",
                                               side |-> "", size |-> 0, fill |-> 0])
    /\ UNCHANGED <<engvars, simvars, bootvars, concvars, buildvars, metvars, brkvars>>

\* ------------------------------------------------------------ run()

Day(t) == (t + BarsPerDay - 1) \div BarsPerDay
NDays == Day(NBars)

\* a table of n bars per product
Tables(n) ==
    [ProductSet -> UNION {[1..n -> BarChoices("A") \cup BarChoices("B")]}]

\* the parts of the program that a run of the engine does not touch: the
\* simulator not started, main() not called, no engine thread, no portfolio
\* built
SimIdle ==
    /\ pb_hist = <<>>
    /\ sim_t = 1
    /\ sim_pc = "idle"
    /\ sim_i = 1
    /\ sim_prices = [p \in PbProducts |-> 0]

BootIdle == boot = [pc |-> "idle"]

ConcIdle ==
    /\ ss_fetch = [eng |-> 0, t |-> 0]
    /\ th = <<>>
    /\ state_files = <<>>

BuildIdle ==
    /\ last_weights_fp = <<>>
    /\ clock = 0
    /\ built = <<>>

MetIdle == met = [pc |-> "idle"]

\* no brackets.json yet, no call of add_bracket or manage_brackets under way
BrkIdle ==
    /\ brk_file = <<>>
    /\ brk_mgr = [pc |-> "idle", st |-> <<>>, changed |-> FALSE, polls |-> 0, upd |-> {}]
    /\ brk_add = [pc |-> "idle", st |-> <<>>, cid |-> 0]
    /\ brk_hist = [added |-> {}, saved |-> {}]

\* the engine as constructed, its run() not started
EngIdle ==
    /\ fill_when = "next"
    /\ dfs = [p \in ProductSet |-> <<>>]
    /\ t_idx = 1
    /\ pc = "exits"
    /\ port = [cash |-> initial_cash, equity |-> initial_cash,
               positions |-> <<>>, turnover |-> 0]
    /\ trades = <<>>
    /\ eq_curve = <<>>
    /\ daily_marks = [dd \in 1..NDays |-> 0]
    /\ signals = <<>>
    /\ ad_i = 1
    /\ sig_i = 1
    /\ raised_ads = {}
    /\ step_log = <<>>
    /\ adapters = <<>>

Init ==
    /\ fill_when \in {"close", "next"}
    /\ dfs \in {d \in Tables(Min(2, NBars)) :
                  \A p \in ProductSet : \A i \in DOMAIN d[p] : d[p][i] \in BarChoices(p)}
    /\ t_idx = 1
    /\ pc = "exits"
    /\ port = [cash |-> initial_cash, equity |-> initial_cash,
               positions |-> <<>>, turnover |-> 0]
    /\ trades = <<>>
    /\ eq_curve = <<>>
    /\ daily_marks = [dd \in 1..NDays |-> 0]
    /\ signals = <<>>
    /\ ad_i = 1
    /\ sig_i = 1
    /\ raised_ads = {}
    /\ step_log = <<>>
    /\ adapters = Adapters
    /\ PbInit
    /\ SimIdle /\ BootIdle /\ ConcIdle /\ BuildIdle /\ MetIdle /\ BrkIdle

\* a gather loop that puts the signals of the adapter called last in front
ExtendFront(sigs, more) == more \o sigs

\* signals.extend(...)
Extend(sigs, more) == sigs \o more

\* history record of one thing done in the current step
Event(ev, i, why, legs) == [ev |-> ev, i |-> i, why |-> why, legs |-> legs]

\* a loop body that applies the entries before the rebalances
NextPhaseEntriesFirst(phase) ==
    CASE phase = "exits" -> "gather"
      [] phase = "gather" -> "entries"
      [] phase = "entries" -> "rebalance"
      [] phase = "rebalance" -> "mark"
      [] OTHER -> "exits"

\* the order of the statements of the loop body of run()
NextPhase(phase) ==
    CASE phase = "exits" -> "gather"
      [] phase = "gather" -> "rebalance"
      [] phase = "rebalance" -> "entries"
      [] phase = "entries" -> "mark"
      [] OTHER -> "exits"

\* step 1: exits/management for bracket positions
ExitsStep ==
    /\ pc = "exits"
    /\ LET r == ManageExits(port, trades, PricesNow(t_idx), t_idx)
       IN  /\ port' = r.port
           /\ trades' = r.trades
    /\ pc' = NextPhase("exits")
    /\ signals' = <<>>
    /\ ad_i' = 1
    /\ sig_i' = 1
    /\ raised_ads' = {}
    /\ step_log' = << Event("exits", 0, "", <<>>) >>
    /\ UNCHANGED <<adapters, fill_when, dfs, t_idx, eq_curve, daily_marks>>
    /\ UNCHANGED <<pbvars, simvars, bootvars, concvars, buildvars, metvars, brkvars>>

\* step 2: one iteration of the gather loop
GatherStep ==
    /\ pc = "gather"
    /\ ad_i <= Len(adapters)
    /\ \E out \in AdapterOutputs(adapters[ad_i], t_idx) :
          /\ signals' = Extend(signals, OnBarResult(adapters[ad_i], out))
          /\ raised_ads' = IF out.raised THEN raised_ads \cup {adapters[ad_i]}
                           ELSE raised_ads
    /\ ad_i' = ad_i + 1
    /\ step_log' = Append(step_log, Event("gather", ad_i, "", <<>>))
    /\ pc' = IF ad_i = Len(adapters) THEN NextPhase("gather") ELSE pc
    /\ UNCHANGED <<adapters, fill_when, dfs, t_idx, port, trades, eq_curve, daily_marks, sig_i>>
    /\ UNCHANGED <<pbvars, simvars, bootvars, concvars, buildvars, metvars, brkvars>>

\* the index of the next signal of `type` from i on (Len + 1: none left)
RECURSIVE NextOfType(_, _, _)
NextOfType(sigs, i, type) ==
    IF i > Len(sigs) THEN i
    ELSE IF sigs[i].type = type THEN i ELSE NextOfType(sigs, i + 1, type)

\* step 3: one iteration of the rebalance loop
RebalanceStep ==
    /\ pc = "rebalance"
    /\ LET i == NextOfType(signals, sig_i, "rebalance")
       IN  IF i > Len(signals)
           THEN /\ pc' = NextPhase("rebalance")
                /\ sig_i' = 1
                /\ UNCHANGED <<port, trades, step_log>>
           ELSE LET r == ApplyRebalanceSignalIn(port, trades, signals[i], dfs, fill_when, t_idx)
                IN  /\ port' = r.port
                    /\ trades' = r.trades
                    /\ pc' = IF r.raised THEN "raised" ELSE pc
                    /\ sig_i' = i + 1
                    /\ step_log' = Append(step_log,
                                     Event("rebalance", i, IF r.raised THEN "raise" ELSE "",
                                           r.legs))
    /\ UNCHANGED <<adapters, fill_when, dfs, t_idx, eq_curve, daily_marks, signals, ad_i, raised_ads>>
    /\ UNCHANGED <<pbvars, simvars, bootvars, concvars, buildvars, metvars, brkvars>>

\* step 4: one iteration of the entry loop
EntryStep ==
    /\ pc = "entries"
    /\ LET i == NextOfType(signals, sig_i, "entry")
       IN  IF i > Len(signals)
           THEN /\ pc' = NextPhase("entries")
                /\ sig_i' = 1
                /\ UNCHANGED <<port, trades, step_log>>
           ELSE LET r == ApplyEntrySignalIn(port, trades, signals[i], dfs, fill_when,
                                            t_idx, PricesNow(t_idx))
                IN  /\ port' = r.port
                    /\ trades' = r.trades
                    /\ pc' = IF r.raised THEN "raised" ELSE pc
                    /\ sig_i' = i + 1
                    /\ step_log' = Append(step_log, Event("entry", i, r.why, <<>>))
    /\ UNCHANGED <<adapters, fill_when, dfs, t_idx, eq_curve, daily_marks, signals, ad_i, raised_ads>>
    /\ UNCHANGED <<pbvars, simvars, bootvars, concvars, buildvars, metvars, brkvars>>

\* step 5: mark equity, then the loop goes to the next timestamp.  The table
\* is loaded before the run; the model draws its bar t+2 only here, when the
\* loop gets within reach of it.
MarkStep ==
    /\ pc = "mark"
    /\ LET eq == Valuation(port, PricesNow(t_idx))
       IN  /\ port' = [port EXCEPT !.equity = eq]
           /\ eq_curve' = Append(eq_curve, eq)
           /\ daily_marks' = [daily_marks EXCEPT ![Day(t_idx)] = eq]
    /\ step_log' = Append(step_log, Event("mark", 0, "", <<>>))
    /\ IF t_idx < NBars
       THEN /\ t_idx' = t_idx + 1
            /\ pc' = NextPhase("mark")
            /\ IF t_idx + 2 <= NBars
               THEN \E b \in [ProductSet -> BarChoices("A") \cup BarChoices("B")] :
                       /\ \A p \in ProductSet : b[p] \in BarChoices(p)
                       /\ dfs' = [p \in ProductSet |-> Append(dfs[p], b[p])]
               ELSE dfs' = dfs
       ELSE /\ pc' = "final"
            /\ UNCHANGED <<t_idx, dfs>>
    /\ UNCHANGED <<adapters, fill_when, trades, signals, ad_i, sig_i, raised_ads>>
    /\ UNCHANGED <<pbvars, simvars, bootvars, concvars, buildvars, metvars, brkvars>>

\* the final liquidation loop of run(): every position left, at the last close
RECURSIVE LiquidateAll(_, _, _, _)
LiquidateAll(acc, ps, prices, ts) ==
    IF ps = <<>> THEN acc
    ELSE LET pos == ps[1]
             px_eff == ApplyFeesSlippage(prices[pos.product], "sell")
             notional == Mul(pos.qty, px_eff)
             pt2 == [acc.port EXCEPT !.cash = @ + notional,
                                     !.turnover = @ + Abs(notional),
                                     !.positions = Del(@, pos.product)]
             tr2 == Append(acc.trades,
                        TradeRow(ts, pos.product, "EXIT", "final", 0 - pos.qty, px_eff, pos.name))
         IN  LiquidateAll([port |-> pt2, trades |-> tr2], Tail(ps), prices, ts)

\* a final liquidation that goes over the bracket positions only
ToLiquidateBrackets(ps) == SelectSeq(ps, LAMBDA pos : pos.name # PM)

\* the positions the final liquidation loop goes over: all of them
ToLiquidate(ps) == ps

\* after the loop: final liquidation, the last point of the curve re-marked
FinalStep ==
    /\ pc = "final"
    /\ LET prices == PricesNow(NBars)
           r == LiquidateAll([port |-> port, trades |-> trades],
                             ToLiquidate(port.positions), prices, NBars)
           eq == Valuation(r.port, prices)
       IN  /\ port' = [r.port EXCEPT !.equity = eq]
           /\ trades' = r.trades
           /\ eq_curve' = [eq_curve EXCEPT ![NBars] = eq]
    /\ pc' = "done"
    /\ UNCHANGED <<adapters, fill_when, dfs, t_idx, daily_marks, signals, ad_i, sig_i, raised_ads,
                   step_log>>
    /\ UNCHANGED <<pbvars, simvars, bootvars, concvars, buildvars, metvars, brkvars>>

Next ==
    \/ ExitsStep
    \/ GatherStep
    \/ RebalanceStep
    \/ EntryStep
    \/ MarkStep
    \/ FinalStep

Spec == Init /\ [][Next]_vars

\* a run with two entry adapters registered, whose signals can tie on an asset
TieAdapters == <<"triple_ma", "donchian_breakout">>

TieInit ==
    /\ fill_when \in {"close", "next"}
    /\ dfs \in {d \in Tables(Min(2, NBars)) :
                  \A p \in ProductSet : \A i \in DOMAIN d[p] : d[p][i] \in BarChoices(p)}
    /\ t_idx = 1
    /\ pc = "exits"
    /\ port = [cash |-> initial_cash, equity |-> initial_cash,
               positions |-> <<>>, turnover |-> 0]
    /\ trades = <<>>
    /\ eq_curve = <<>>
    /\ daily_marks = [dd \in 1..NDays |-> 0]
    /\ signals = <<>>
    /\ ad_i = 1
    /\ sig_i = 1
    /\ raised_ads = {}
    /\ step_log = <<>>
    /\ adapters = TieAdapters
    /\ PbInit
    /\ SimIdle /\ BootIdle /\ ConcIdle /\ BuildIdle /\ MetIdle /\ BrkIdle

TieSpec == TieInit /\ [][Next]_vars

\* the paper broker driven call by call; the engine stays as constructed
PaperInit ==
    /\ PbInit
    /\ EngIdle
    /\ SimIdle /\ BootIdle /\ ConcIdle /\ BuildIdle /\ MetIdle /\ BrkIdle

PaperNext ==
    \/ PbPlace
    \/ PbTryExit

PaperSpec == PaperInit /\ [][PaperNext]_vars


\* ------------------------------------------------------------ simulate() (sim/paper_sim.py)

\* bound on the timestamps of the simulated index
SimBars == 2

\* SimConfig.risk_per_trade
sim_risk_per_trade == 1

\* products of simulate(), in the order of all_dfs
SimProducts == <<"A", "B">>
\* closes the candles may hold
SimPrices == {1000, 1100}
\* the best setup of a product at a timestamp: its side and the ATR of the
\* window; stop and target lie 2 and 4 ATR from the entry
SimSetups == {[side |-> "buy", atr |-> 10], [side |-> "sell", atr |-> 5],
              [side |-> "sell", atr |-> 10]}

\* the equity PaperBroker.mark_to_market computes
MarkEquity(cash, positions, prices) ==
    LET val(pid) ==
            LET pos == positions[pid]
            IN  IF pos = NoPos THEN 0
                ELSE IF pos.side = "long" THEN Mul(pos.base, prices[pid])
                ELSE Mul(pos.base, 2 * pos.entry - prices[pid])
    IN  cash + val("A") + val("B")

\* PaperBroker.mark_to_market: the history with the point appended
MarkToMarket(hist, t, cash, positions, prices) ==
    Append(hist, [t |-> t, equity |-> MarkEquity(cash, positions, prices), cash |-> cash])

\* "Manage exits on current bar mid": try_exit on every open position
RECURSIVE SimExits(_, _, _)
SimExits(acc, pids, prices) ==
    IF pids = <<>> THEN acc
    ELSE LET pid == pids[1]
             r == TryExit(acc.cash, acc.positions, acc.log, pid, prices[pid],
                          prices[pid], prices[pid])
         IN  SimExits([cash |-> r.cash, positions |-> r.positions, log |-> r.log],
                      Tail(pids), prices)

SimInit ==
    /\ PbInit
    /\ pb_hist = <<>>
    /\ sim_t = 1
    /\ sim_pc = "exits"
    /\ sim_i = 1
    /\ sim_prices = [p \in PbProducts |-> 0]
    /\ EngIdle /\ BootIdle /\ ConcIdle /\ BuildIdle /\ MetIdle /\ BrkIdle

\* the prices of timestamp t are read and the exits managed
SimExitsStep ==
    /\ sim_pc = "exits"
    /\ \E prices \in [PbProducts -> SimPrices] :
          LET r == SimExits([cash |-> pb_cash, positions |-> pb_positions, log |-> pb_log],
                            SimProducts, prices)
          IN  /\ sim_prices' = prices
              /\ pb_cash' = r.cash
              /\ pb_positions' = r.positions
              /\ pb_log' = r.log
    /\ sim_pc' = "entries"
    /\ sim_i' = 1
    /\ UNCHANGED <<pb_calls, pb_hist, sim_t>>
    /\ UNCHANGED <<engvars, bootvars, concvars, buildvars, metvars, brkvars>>

\* one iteration of "If flat, consider new entries at bar close"
SimEntryStep ==
    /\ sim_pc = "entries"
    /\ IF sim_i > Len(SimProducts)
       THEN /\ sim_pc' = "mark"
            /\ UNCHANGED <<pb_cash, pb_positions, pb_hist, sim_i>>
       ELSE LET p == SimProducts[sim_i]
            IN  /\ sim_pc' = sim_pc
                /\ sim_i' = sim_i + 1
                /\ IF pb_positions[p] # NoPos
                   THEN UNCHANGED <<pb_cash, pb_positions, pb_hist>>
                   ELSE \/ UNCHANGED <<pb_cash, pb_positions, pb_hist>>
                        \/ \E best \in SimSetups :
                              LET entry == sim_prices[p]
                                  long == best.side = "buy"
                                  stop == IF long THEN entry - 2 * best.atr
                                          ELSE entry + 2 * best.atr
                                  target == IF long THEN entry + 4 * best.atr
                                            ELSE entry - 4 * best.atr
                                  rpu == IF long THEN entry - stop ELSE stop - entry
                                  hist2 == MarkToMarket(pb_hist, sim_t, pb_cash,
                                                        pb_positions, sim_prices)
                                  risk_budget == Mul(sim_risk_per_trade, Last(hist2).equity)
                                  size == Max(0, Div(risk_budget, Max(Eps, rpu)))
                                  r == Place(pb_cash, pb_positions, p,
                                             IF long THEN "long" ELSE "short", size, entry,
                                             stop, target, best.atr, entry, entry)
                              IN  /\ pb_hist' = hist2
                                  /\ pb_cash' = r.cash
                                  /\ pb_positions' = r.positions
    /\ UNCHANGED <<pb_log, pb_calls, sim_t, sim_prices>>
    /\ UNCHANGED <<engvars, bootvars, concvars, buildvars, metvars, brkvars>>

\* "Mark-to-market at bar end", then the next timestamp
SimMarkStep ==
    /\ sim_pc = "mark"
    /\ pb_hist' = MarkToMarket(pb_hist, sim_t, pb_cash, pb_positions, sim_prices)
    /\ IF sim_t < SimBars
       THEN /\ sim_t' = sim_t + 1
            /\ sim_pc' = "exits"
       ELSE /\ sim_pc' = "done"
            /\ UNCHANGED sim_t
    /\ UNCHANGED <<pb_cash, pb_positions, pb_log, pb_calls, sim_i, sim_prices>>
    /\ UNCHANGED <<engvars, bootvars, concvars, buildvars, metvars, brkvars>>

SimNext ==
    \/ SimExitsStep
    \/ SimEntryStep
    \/ SimMarkStep

SimSpec == SimInit /\ [][SimNext]_vars


\* ------------------------------------------------------------ main() (run_backtest.py) and DataPortal._load

\* timestamps a fetched frame may hold
BootTimes == 1..2
\* the keys of ADAPTERS
ADAPTERS == {"ma", "donch", "momo"}
\* command lines: --products, --adapters, --initial-cash
ProductsChoices == {<<>>, <<"A">>, <<"A", "B">>}
AdapterKeyChoices == {<<>>, <<"ma">>, <<"ma", "bogus">>}
InitialCashChoices == {-10000, 0, 100000}
\* cfg.start: 0 is None
StartChoices == {0, 2, 3}

Range(seq) == {seq[i] : i \in 1..Len(seq)}

\* DataPortal._load: the frames kept, each reindexed to the clipped
\* intersection; raised when no frame is kept. bars[p] is the index of the
\* frame fetch_candles_df returns for p.
Load(products, bars, start) ==
    LET kept == {q \in Range(products) : bars[q] # {}}
        idx0 == {ts \in BootTimes : \A q \in kept : ts \in bars[q]}
        idx == IF start # 0 THEN {ts \in idx0 : ts >= start} ELSE idx0
    IN  [raised |-> kept = {}, dfs |-> [q \in kept |-> idx]]

\* DataPortal.time_index: the index of the first frame
TimeIndex(frames) == frames[CHOOSE q \in DOMAIN frames : TRUE]

BootInit ==
    /\ \E products \in ProductsChoices, keys \in AdapterKeyChoices,
          cash \in InitialCashChoices, start \in StartChoices,
          bars \in [{"A", "B"} -> SUBSET BootTimes] :
          boot = [pc |-> "main", products |-> products, adapters |-> keys,
                  initial_cash |-> cash, start |-> start, bars |-> bars,
                  frames |-> <<>>, cash |-> 0, steps |-> 0, err |-> "none",
                  at |-> "none", files |-> {}]
    /\ EngIdle /\ PbInit /\ SimIdle /\ ConcIdle /\ BuildIdle /\ MetIdle /\ BrkIdle

\* engine = BacktestEngine(cb, cfg, adapters=[]): the portal loads, the
\* portfolio takes risk.initial_cash as it is
BootEngine ==
    /\ boot.pc = "main"
    /\ LET portal == Load(boot.products, boot.bars, boot.start)
       IN  IF portal.raised
           THEN boot' = [boot EXCEPT !.pc = "failed", !.err = "RuntimeError",
                                     !.at = "construct"]
           ELSE boot' = [boot EXCEPT !.pc = "adapters", !.frames = portal.dfs,
                                     !.cash = boot.initial_cash]
    /\ UNCHANGED <<engvars, pbvars, simvars, concvars, buildvars, metvars, brkvars>>

\* "re-bind adapters with the engine's portal"
BootAdapters ==
    /\ boot.pc = "adapters"
    /\ IF \E i \in 1..Len(boot.adapters) : boot.adapters[i] \notin ADAPTERS
       THEN boot' = [boot EXCEPT !.pc = "failed", !.err = "SystemExit",
                                 !.at = "adapters"]
       ELSE boot' = [boot EXCEPT !.pc = "loop"]
    /\ UNCHANGED <<engvars, pbvars, simvars, concvars, buildvars, metvars, brkvars>>

\* one pass of "for t_idx, ts in enumerate(idx)": prices_now looks every
\* configured product up in the portal; with adapters bound, a fill of the
\* step can raise (_price_at)
BootLoopStep ==
    /\ boot.pc = "loop"
    /\ IF boot.steps >= Cardinality(TimeIndex(boot.frames))
       THEN boot' = [boot EXCEPT !.pc = "final"]
       ELSE IF \E q \in Range(boot.products) : q \notin DOMAIN boot.frames
       THEN boot' = [boot EXCEPT !.pc = "failed", !.err = "KeyError", !.at = "loop",
                                 !.steps = @ + 1]
       ELSE \/ boot' = [boot EXCEPT !.steps = @ + 1]
            \/ /\ boot.adapters # <<>>
               /\ boot' = [boot EXCEPT !.pc = "failed", !.err = "KeyError",
                                       !.at = "loop", !.steps = @ + 1]
    /\ UNCHANGED <<engvars, pbvars, simvars, concvars, buildvars, metvars, brkvars>>

\* after the loop: last_ts = idx[-1], final liquidation, metrics, the three
\* files
BootFinal ==
    /\ boot.pc = "final"
    /\ IF TimeIndex(boot.frames) = {}
       THEN boot' = [boot EXCEPT !.pc = "failed", !.err = "IndexError", !.at = "final"]
       ELSE boot' = [boot EXCEPT !.pc = "written",
                                 !.files = {"bt_trades.csv", "bt_equity.csv",
                                            "bt_daily.csv"}]
    /\ UNCHANGED <<engvars, pbvars, simvars, concvars, buildvars, metvars, brkvars>>

BootNext ==
    \/ BootEngine
    \/ BootAdapters
    \/ BootLoopStep
    \/ BootFinal

BootSpec == BootInit /\ [][BootNext]_vars


\* ------------------------------------------------------------ two engines in threads (adapters_portfolio.py)

\* bars of each engine's index, and bars per calendar month
ConcBars == 5
ConcBarsPerMonth == 2

Engines == {1, 2}
\* ctx.products: one fetch per product in get_prices_matrix
ConcProducts == <<"A", "B">>
\* the files run() writes under STATE_DIR
BtFiles == {"bt_trades.csv", "bt_equity.csv", "bt_daily.csv"}

\* (ts.year, ts.month) of bar t
MonthKey(t) == (t - 1) \div ConcBarsPerMonth

ConcInit ==
    /\ ss_fetch = [eng |-> 0, t |-> 0]
    /\ th = [e \in Engines |-> [pc |-> "bar", t |-> 1, k |-> 1, last_month |-> -1,
                                reads |-> {}]]
    /\ state_files = [f \in BtFiles |-> 0]
    /\ EngIdle /\ PbInit /\ SimIdle /\ BootIdle /\ BuildIdle /\ MetIdle /\ BrkIdle

\* PortfolioRebalanceAdapter.on_bar up to the patch of the module global:
\* pm.fetch_candles_df = self._mk_fetcher(t_idx)
OnBarPatch(e) ==
    /\ th[e].pc = "bar"
    /\ th[e].t <= ConcBars
    /\ LET me == th[e]
           month_key == MonthKey(me.t)
       IN  IF me.last_month = -1 \/ month_key = me.last_month
           THEN /\ th' = [th EXCEPT ![e].last_month = month_key, ![e].t = @ + 1]
                /\ UNCHANGED ss_fetch
           ELSE /\ th' = [th EXCEPT ![e].last_month = month_key, ![e].pc = "fetch",
                                    ![e].k = 1]
                /\ ss_fetch' = [eng |-> e, t |-> me.t]
    /\ UNCHANGED state_files
    /\ UNCHANGED <<engvars, pbvars, simvars, bootvars, buildvars, metvars, brkvars>>

\* build_portfolio -> get_prices_matrix: one call of the module global
\* fetch_candles_df, which returns the window of the portal and step of the
\* fetcher installed last
Fetch(e) ==
    /\ th[e].pc = "fetch"
    /\ LET me == th[e]
           got == [eng |-> ss_fetch.eng, t |-> ss_fetch.t, own |-> me.t]
       IN  IF me.k < Len(ConcProducts)
           THEN th' = [th EXCEPT ![e].reads = @ \cup {got}, ![e].k = @ + 1]
           ELSE th' = [th EXCEPT ![e].reads = @ \cup {got}, ![e].pc = "bar",
                                 ![e].t = @ + 1]
    /\ UNCHANGED <<ss_fetch, state_files>>
    /\ UNCHANGED <<engvars, pbvars, simvars, bootvars, buildvars, metvars, brkvars>>

\* the end of run(): the three to_csv calls, one file each
WriteFile(e) ==
    /\ \/ th[e].pc = "bar" /\ th[e].t > ConcBars
       \/ th[e].pc \in {"equity", "daily"}
    /\ LET f == IF th[e].pc = "bar" THEN "bt_trades.csv"
                ELSE IF th[e].pc = "equity" THEN "bt_equity.csv" ELSE "bt_daily.csv"
           nxt == IF th[e].pc = "bar" THEN "equity"
                  ELSE IF th[e].pc = "equity" THEN "daily" ELSE "done"
       IN  /\ state_files' = [state_files EXCEPT ![f] = e]
           /\ th' = [th EXCEPT ![e].pc = nxt]
    /\ UNCHANGED ss_fetch
    /\ UNCHANGED <<engvars, pbvars, simvars, bootvars, buildvars, metvars, brkvars>>

ConcNext ==
    \E e \in Engines :
       \/ OnBarPatch(e)
       \/ Fetch(e)
       \/ WriteFile(e)

ConcSpec == ConcInit /\ [][ConcNext]_vars


\* ------------------------------------------------------------ build_portfolio() (strategies/strategy_suite.py)

\* bound on the portfolios built
MaxBuilds == 3

\* PMContext knobs
max_weight == 25
min_weight == 0
max_turnover == 35

BuildProducts == {"BTC-USD", "ETH-USD", "SOL-USD", "ADA-USD", "XRP-USD"}
\* blends of the base models, each a function of the price matrix alone
Underweight(low) == [p \in BuildProducts |-> IF p = low THEN 4 ELSE 24]
BlendChoices == {[p \in BuildProducts |-> 20], Underweight("XRP-USD"),
                 Underweight("BTC-USD")}
\* what state/pm_last_weights.json can hold before the first build: no file,
\* or the weights an earlier run persisted
LastWeightsChoices == {<<>>, Underweight("ETH-USD")}
\* months from the last halving to datetime.now()
ClockChoices == {12, 30, 31}

RECURSIVE WSum(_, _)
WSum(w, ks) ==
    IF ks = {} THEN 0
    ELSE LET k == CHOOSE k \in ks : TRUE
         IN  w[k] + WSum(w, ks \ {k})

\* w.sum()
Total(w) == WSum(w, DOMAIN w)

\* w / w.sum()
Normalized(w) == [k \in DOMAIN w |-> Div(w[k], Total(w))]

\* w.reindex(idx).fillna(0.0)
Reindex(w, idx) == [k \in idx |-> IF k \in DOMAIN w THEN w[k] ELSE 0]

cap_and_normalize(w, max_w, min_w) ==
    LET w2 == [k \in DOMAIN w |-> Min(Max(w[k], min_w), max_w)]
        sm == Total(w2)
    IN  IF sm <= 0 THEN [k \in DOMAIN w |-> Div(Scale, Cardinality(DOMAIN w))]
        ELSE [k \in DOMAIN w |-> Div(w2[k], sm)]

\* btc_halving_tilt: the multiplier for the months since 2024-04-20
btc_halving_tilt(months) ==
    IF months <= 12 THEN 115 ELSE IF months <= 30 THEN 105 ELSE 95

\* "Halving tilt for BTC, if present"
HalvingTilt(w, months) ==
    IF "BTC-USD" \in DOMAIN w
    THEN Normalized([w EXCEPT !["BTC-USD"] = Mul(@, btc_halving_tilt(months))])
    ELSE w

\* float(np.abs(a - b).sum())
L1(a, b) == Total([k \in DOMAIN a |-> Abs(a[k] - b[k])])

\* the loop of turnover_shrink: "shrink towards lw until turnover cap is hit"
RECURSIVE ShrinkLoop(_, _, _, _, _)
ShrinkLoop(alpha, n, nw, lw, keep) ==
    IF n = 0
    THEN Normalized(Reindex([k \in DOMAIN nw |-> Mul(50, nw[k]) + Mul(50, lw[k])], keep))
    ELSE LET a == Mul(alpha, 80)
             candidate == [k \in DOMAIN nw |-> Mul(a, nw[k]) + Mul(Scale - a, lw[k])]
         IN  IF L1(candidate, lw) <= max_turnover
             THEN Normalized(Reindex(candidate, keep))
             ELSE ShrinkLoop(a, n - 1, nw, lw, keep)

\* turnover_shrink, last being the contents of LAST_WEIGHTS_FP (<<>> when the
\* file is absent)
turnover_shrink(new_w, last) ==
    LET idx == DOMAIN new_w \cup DOMAIN last
        nw == Reindex(new_w, idx)
        lw == Reindex(last, idx)
        tau == L1(nw, lw)
    IN  IF tau <= max_turnover \/ Total(lw) = 0 THEN new_w
        ELSE ShrinkLoop(Scale, 30, nw, lw, DOMAIN new_w)

\* build_portfolio from the blend on: tilt, caps, the overlays (both return w
\* without a Neo4j session and without a stable among the products), caps,
\* turnover control
build_portfolio(blend, months, last) ==
    LET w1 == HalvingTilt(blend, months)
        w2 == cap_and_normalize(w1, max_weight, min_weight)
        w3 == cap_and_normalize(w2, max_weight, min_weight)
    IN  turnover_shrink(w3, last)

BuildInit ==
    /\ last_weights_fp \in LastWeightsChoices
    /\ clock \in ClockChoices
    /\ built = <<>>
    /\ EngIdle /\ PbInit /\ SimIdle /\ BootIdle /\ ConcIdle /\ MetIdle /\ BrkIdle

\* one call of build_portfolio by PortfolioRebalanceAdapter.on_bar: the
\* weights are persisted and the rebalance signal is emitted
BuildPortfolio ==
    /\ Len(built) < MaxBuilds
    /\ \E blend \in BlendChoices :
          LET w_tc == build_portfolio(blend, clock, last_weights_fp)
          IN  /\ last_weights_fp' = w_tc
              /\ built' = Append(built, [blend |-> blend, type |-> "rebalance",
                                         target_weights |-> w_tc])
    /\ UNCHANGED clock
    /\ UNCHANGED <<engvars, pbvars, simvars, bootvars, concvars, metvars, brkvars>>

\* wall-clock time passes
ClockTick ==
    /\ \E c \in ClockChoices : c > clock /\ clock' = c
    /\ UNCHANGED <<last_weights_fp, built>>
    /\ UNCHANGED <<engvars, pbvars, simvars, bootvars, concvars, metvars, brkvars>>

BuildNext ==
    \/ BuildPortfolio
    \/ ClockTick

BuildSpec == BuildInit /\ [][BuildNext]_vars

\* ------------------------------------------------------------ metrics (backtest/engine.py)

\* length of the equity curve handed to compute_metrics
CurveLen == 3
\* the equity values a curve is drawn from
EquityLevels == {80, 90, 100, 110, 120}

\* round(x, 4) and round(x, 3): the units of the rounded values
Round4 == 10000
Round3 == 1000

\* the values a metric can take: a finite number, +infinity, not-a-number
Num(v) == [kind |-> "num", val |-> v]
Inf == [kind |-> "inf", val |-> 0]
NaN == [kind |-> "nan", val |-> 0]
IsFinite(x) == x.kind = "num"

\* series.cummax() at position i
CumMax(series, i) ==
    CHOOSE m \in {series[j] : j \in 1..i} : \A j \in 1..i : m >= series[j]

\* _drawdown_curve(series): max_dd as the exact fraction num / den of
\* dd = series / roll_max - 1 at its minimum, and calmar
DrawdownCurve(series) ==
    LET n == Len(series)
        k == CHOOSE i \in 1..n : \A j \in 1..n :
                 (series[i] - CumMax(series, i)) * CumMax(series, j)
                     <= (series[j] - CumMax(series, j)) * CumMax(series, i)
        num == series[k] - CumMax(series, k)
        den == CumMax(series, k)
    IN  [max_dd |-> [num |-> num, den |-> den],
         calmar |-> IF num < 0
                    THEN Num(RDiv((series[n] - series[1]) * den * Round3,
                                  series[1] * (0 - num)))
                    ELSE Inf]

\* compute_metrics(equity_curve, daily_curve): TotalReturn and MaxDrawdown in
\* units of 1e-4, Calmar in units of 1e-3.  CAGR, Sharpe and Sortino are
\* computed from the same curves and leave these three keys alone.
ComputeMetrics(equity_curve) ==
    LET n == Len(equity_curve)
        d == DrawdownCurve(equity_curve)
    IN  [TotalReturn |-> RDiv((equity_curve[n] - equity_curve[1]) * Round4,
                              equity_curve[1]),
         MaxDrawdown |-> RDiv(d.max_dd.num * Round4, d.max_dd.den),
         Calmar      |-> IF IsFinite(d.calmar) THEN d.calmar ELSE NaN]

MetInit ==
    /\ \E c \in [1..CurveLen -> EquityLevels] :
           met = [pc |-> "curve", equity_curve |-> c]
    /\ EngIdle /\ PbInit /\ SimIdle /\ BootIdle /\ ConcIdle /\ BuildIdle /\ BrkIdle

MetricsStep ==
    /\ met.pc = "curve"
    /\ met' = [pc |-> "done", equity_curve |-> met.equity_curve,
               out |-> ComputeMetrics(met.equity_curve)]
    /\ UNCHANGED <<engvars, pbvars, simvars, bootvars, concvars, buildvars, brkvars>>

MetNext == MetricsStep

MetSpec == MetInit /\ [][MetNext]_vars

\* ------------------------------------------------------------ brackets.json (state.py, execution.py)

\* The trader (place_rr_trades -> place_bracket_long -> add_bracket) and the
\* bracket manager (run_manager_loop -> manage_brackets) are two commands of
\* run_trader.py, each its own process; both read and rewrite the one file
\* state/brackets.json, and no lock is taken.

\* brackets registered by the trader
MaxBrackets == 2
\* polls of the manager
MaxPolls == 2

\* mid prices a poll may see (0: no quote for the product)
BrkMids == {0, 850, 1000, 1100, 1200}
\* manage_brackets default; trail_atr_mult defaults to 0 and the records
\* registered hold no "atr", so the trailing branch is never taken
break_even_after_r == 100

\* the record place_bracket_long registers
BracketRecord(cid) ==
    [client_order_id |-> cid, side |-> "long", entry |-> 1000, stop |-> 900,
     target |-> 1200, active |-> TRUE]

\* load_state(): the brackets of the file; a file that does not exist or was
\* truncated by an open(..., "w") not yet followed by its dump does not
\* parse, and the except branch returns no brackets
LoadState(file) == file

\* manage_brackets: the loop body on one record b at mid price mid
ManageOne(b, mid) ==
    IF ~b.active \/ mid <= 0 THEN b
    ELSE LET r == b.entry - b.stop
             b1 == IF /\ break_even_after_r > 0
                      /\ mid >= b.entry + Mul(break_even_after_r, r)
                      /\ b.stop < b.entry
                   THEN [b EXCEPT !.stop = b.entry] ELSE b
         IN  IF mid <= b1.stop \/ mid >= b1.target
             THEN [b1 EXCEPT !.active = FALSE]
             ELSE b1

ManageAll(st, mid) == [i \in 1..Len(st) |-> ManageOne(st[i], mid)]

\* the records a call of manage_brackets changed
ChangedRecords(old, new) == {new[i] : i \in {j \in 1..Len(new) : new[j] # old[j]}}

\* save_state(state), after its open(): json.dump writes the state held in memory
SaveState(st) == st

BrkInit ==
    /\ BrkIdle
    /\ EngIdle /\ PbInit /\ SimIdle /\ BootIdle /\ ConcIdle /\ BuildIdle /\ MetIdle

\* add_bracket: st = load_state(); st["brackets"].append(record)
AddLoad ==
    /\ brk_add.pc = "idle"
    /\ Cardinality(brk_hist.added) < MaxBrackets
    /\ LET cid == Cardinality(brk_hist.added) + 1
       IN  brk_add' = [pc |-> "loaded", cid |-> cid,
                       st |-> Append(LoadState(brk_file), BracketRecord(cid))]
    /\ UNCHANGED <<brk_file, brk_mgr, brk_hist>>
    /\ UNCHANGED <<engvars, pbvars, simvars, bootvars, concvars, buildvars, metvars>>

\* add_bracket: save_state(st), its open(STATE_FILE, "w")
AddOpen ==
    /\ brk_add.pc = "loaded"
    /\ brk_file' = <<>>
    /\ brk_add' = [brk_add EXCEPT !.pc = "opened"]
    /\ UNCHANGED <<brk_mgr, brk_hist>>
    /\ UNCHANGED <<engvars, pbvars, simvars, bootvars, concvars, buildvars, metvars>>

\* add_bracket: save_state(st), its json.dump; add_bracket returns
AddDump ==
    /\ brk_add.pc = "opened"
    /\ brk_file' = SaveState(brk_add.st)
    /\ brk_add' = [pc |-> "idle", st |-> <<>>, cid |-> 0]
    /\ brk_hist' = [brk_hist EXCEPT !.added = @ \cup {brk_add.cid}]
    /\ UNCHANGED brk_mgr
    /\ UNCHANGED <<engvars, pbvars, simvars, bootvars, concvars, buildvars, metvars>>

\* manage_brackets: load_state(), the quotes, the loop over the brackets
MgrLoad ==
    /\ brk_mgr.pc = "idle"
    /\ brk_mgr.polls < MaxPolls
    /\ \E mid \in BrkMids :
          LET st == LoadState(brk_file)
              new == ManageAll(st, mid)
          IN  brk_mgr' = [pc |-> "managed", st |-> new, changed |-> new # st,
                          polls |-> brk_mgr.polls,
                          upd |-> ChangedRecords(st, new)]
    /\ UNCHANGED <<brk_file, brk_add, brk_hist>>
    /\ UNCHANGED <<engvars, pbvars, simvars, bootvars, concvars, buildvars, metvars>>

\* manage_brackets: nothing changed, no save
MgrSkip ==
    /\ brk_mgr.pc = "managed"
    /\ ~brk_mgr.changed
    /\ brk_mgr' = [pc |-> "idle", st |-> <<>>, changed |-> FALSE,
                   polls |-> brk_mgr.polls + 1, upd |-> {}]
    /\ UNCHANGED <<brk_file, brk_add, brk_hist>>
    /\ UNCHANGED <<engvars, pbvars, simvars, bootvars, concvars, buildvars, metvars>>

\* manage_brackets: if changed: save_state(st), its open(STATE_FILE, "w")
MgrOpen ==
    /\ brk_mgr.pc = "managed"
    /\ brk_mgr.changed
    /\ brk_file' = <<>>
    /\ brk_mgr' = [brk_mgr EXCEPT !.pc = "opened"]
    /\ UNCHANGED <<brk_add, brk_hist>>
    /\ UNCHANGED <<engvars, pbvars, simvars, bootvars, concvars, buildvars, metvars>>

\* manage_brackets: save_state(st), its json.dump; the poll is over
MgrDump ==
    /\ brk_mgr.pc = "opened"
    /\ brk_file' = SaveState(brk_mgr.st)
    /\ brk_hist' = [brk_hist EXCEPT !.saved =
           {u \in @ : \A v \in brk_mgr.upd : v.client_order_id # u.client_order_id}
               \cup brk_mgr.upd]
    /\ brk_mgr' = [pc |-> "idle", st |-> <<>>, changed |-> FALSE,
                   polls |-> brk_mgr.polls + 1, upd |-> {}]
    /\ UNCHANGED brk_add
    /\ UNCHANGED <<engvars, pbvars, simvars, bootvars, concvars, buildvars, metvars>>

BrkNext ==
    \/ AddLoad
    \/ AddOpen
    \/ AddDump
    \/ MgrLoad
    \/ MgrSkip
    \/ MgrOpen
    \/ MgrDump

BrkSpec == BrkInit /\ [][BrkNext]_vars

\* ------------------------------------------------------------ properties

\* C1: after every fill of any kind, at every step and under either
\* fill-timing policy, portfolio cash is >= 0.
C1_CashNonNegative == port.cash >= 0

\* the tables that agree with d on the bars through t and hold any other
\* bars after t
FutureTables(d, t) ==
    IF Len(d["A"]) > t
    THEN { [p \in ProductSet |-> Append(SubSeq(d[p], 1, t), b[p])] :
           b \in { bb \in [ProductSet -> BarChoices("A") \cup BarChoices("B")] :
                   \A p \in ProductSet : bb[p] \in BarChoices(p) } }
    ELSE {d}

\* what the statement run() is about to execute at step t_idx produces
\* (portfolio, trade rows, equity point) when the table is d
PendingOutputs(d) ==
    LET prices == [p \in ProductSet |-> Last(SubSeq(d[p], 1, t_idx)).close]
        ri == NextOfType(signals, sig_i, "rebalance")
        ei == NextOfType(signals, sig_i, "entry")
    IN  CASE pc = "exits" -> ManageExits(port, trades, prices, t_idx)
          [] pc = "rebalance" /\ ri <= Len(signals) ->
                ApplyRebalanceSignalIn(port, trades, signals[ri], d, fill_when, t_idx)
          [] pc = "entries" /\ ei <= Len(signals) ->
                ApplyEntrySignalIn(port, trades, signals[ei], d, fill_when, t_idx, prices)
          [] pc = "mark" -> [eq |-> Valuation(port, prices)]
          [] OTHER -> [eq |-> 0]

\* C2: nothing run() produces at step t (cash, positions, quantities, trade
\* rows stamped t, the equity point of t) changes when the bars after t are
\* replaced by other values, under both fill-timing policies.
C2_NoLookahead ==
    \A d2 \in FutureTables(dfs, t_idx) : PendingOutputs(d2) = PendingOutputs(dfs)

\* C3: a buy entry accepted on an asset that holds a pm_rebalance position
\* tops the holding up: the quantity held afterwards is the prior quantity
\* plus the quantity bought.
C3_EntryTopsUpHolding ==
    [][ (/\ pc = "entries"
         /\ Len(step_log') > Len(step_log)
         /\ Last(step_log').why = "filled"
         /\ IsPM(port.positions, Last(trades').product))
        => Get(port'.positions, Last(trades').product).qty
             = Get(port.positions, Last(trades').product).qty + Last(trades').qty ]_vars

\* the same bracket position before and after a step
SameBracket(a, b) ==
    /\ a.name # PM
    /\ a.product = b.product /\ a.name = b.name /\ a.opened_ts = b.opened_ts

\* C4: with trailing enabled, the stop of a bracket position that stays open
\* never goes down from one step to the next, whatever the prices do.
C4_TrailingStopMonotone ==
    [][ \A i \in 1..Len(port.positions), j \in 1..Len(port'.positions) :
          SameBracket(port.positions[i], port'.positions[j])
          => port'.positions[j].stop_px >= port.positions[i].stop_px ]_vars

\* a bracket position, two steps after it was opened, whose stop the trailing
\* rule has raised above the stop of its entry signal
C4_Witness ==
    \E i \in 1..Len(port.positions) :
       LET pos == port.positions[i]
       IN  /\ pos.name # PM /\ pos.atr > 0
           /\ enable_trailing
           /\ t_idx >= pos.opened_ts + 2
           /\ pos.stop_px > dfs[pos.product][pos.opened_ts].close - 2 * pos.atr

\* the broker has served exactly one accepted place() and then try_exit()
\* calls on the same asset, the last of which closed the position
PbRoundTrip ==
    /\ Len(pb_calls) >= 2
    /\ pb_calls[1].op = "place" /\ pb_calls[1].ok
    /\ \A i \in 2..Len(pb_calls) :
          /\ pb_calls[i].op = "exit"
          /\ pb_calls[i].pid = pb_calls[1].pid
          /\ pb_calls[i].ok <=> i = Len(pb_calls)

\* C5 as stated: after one place() and one exit through try_exit(), final
\* cash = initial cash - entry fill x size + exit fill x size, and pnl_usd of
\* the logged trade = final cash - initial cash.
C5_RoundTripAsStated ==
    PbRoundTrip =>
       LET size == pb_calls[1].size
           fe == pb_calls[1].fill
           fx == pb_log[1].exit_price
       IN  /\ Len(pb_log) = 1
           /\ pb_cash = sim_initial_cash - Mul(fe, size) + Mul(fx, size)
           /\ pb_log[1].pnl_usd = pb_cash - sim_initial_cash

\* C5 amended: after one place() and one exit through try_exit(), final cash
\* = initial cash - entry fill x size + exit fill x size for a long and
\* initial cash + entry fill x size - exit fill x size for a short; pnl_usd of
\* the single logged trade is (exit fill - entry fill) x size for a long and
\* (entry fill - exit fill) x size for a short, which is final cash - initial
\* cash up to the rounding of the products.
C5_RoundTripAccounting ==
    PbRoundTrip =>
       LET size == pb_calls[1].size
           fe == pb_calls[1].fill
           fx == pb_log[1].exit_price
           long == pb_calls[1].side = "long"
       IN  /\ Len(pb_log) = 1
           /\ pb_log[1].entry = fe /\ pb_log[1].base = size
           /\ pb_cash = IF long THEN sim_initial_cash - Mul(fe, size) + Mul(fx, size)
                        ELSE sim_initial_cash + Mul(fe, size) - Mul(fx, size)
           /\ pb_log[1].pnl_usd = IF long THEN Mul(fx - fe, size) ELSE Mul(fe - fx, size)
           /\ Abs(pb_log[1].pnl_usd - (pb_cash - sim_initial_cash)) <= 1

\* a short round trip: place() accepted a short, try_exit() closed it
C5_Witness ==
    /\ PbRoundTrip
    /\ pb_calls[1].side = "short"
    /\ pb_log[1].exit_price # pb_log[1].entry

\* C6: when an adapter's on_bar raises at step t, one error signal naming the
\* adapter is recorded, the other adapters' signals are still applied, and
\* the run goes on: it does not abort.
C6_AdapterErrorContained ==
    raised_ads # {} =>
       /\ \A a \in raised_ads :
             Cardinality({i \in 1..Len(signals) :
                            signals[i].type = "error" /\ signals[i].name = a}) = 1
       /\ pc # "raised"

\* the place of a phase in the loop body
Rank(ev) ==
    CASE ev = "exits" -> 1
      [] ev = "gather" -> 2
      [] ev = "rebalance" -> 3
      [] ev = "entry" -> 4
      [] OTHER -> 5

\* C7: within a step the phases happen in the order exits, signal collection,
\* rebalance signals, entry signals, equity mark; no entry signal is applied
\* before every rebalance signal of the step has been applied, wherever the
\* signals sit in the list; no phase of step t+1 starts before the equity
\* point of step t is appended.
C7_PhaseOrder ==
    /\ \A i, j \in 1..Len(step_log) :
          i < j => Rank(step_log[i].ev) <= Rank(step_log[j].ev)
    /\ \A j \in 1..Len(step_log) :
          Rank(step_log[j].ev) >= 3 =>
             \A a \in 1..Len(Adapters) :
                \E i \in 1..(j - 1) : step_log[i].ev = "gather" /\ step_log[i].i = a
    /\ \A j \in 1..Len(step_log) :
          step_log[j].ev = "entry" =>
             \A k \in 1..Len(signals) :
                signals[k].type = "rebalance" =>
                   \E i \in 1..(j - 1) : step_log[i].ev = "rebalance" /\ step_log[i].i = k
    /\ pc \in {"exits", "gather", "rebalance", "entries", "mark", "raised"}
          => Len(eq_curve) = t_idx - 1
    /\ pc = "exits" /\ t_idx > 1 => Last(step_log).ev = "mark"

\* a step in which the entry signal sits before the rebalance signal in the
\* list, the rebalance bought first and the entry was then sized and filled
C7_Witness ==
    \E i, j \in 1..Len(step_log) :
       /\ i < j
       /\ step_log[i].ev = "rebalance" /\ step_log[i].legs # <<>>
       /\ step_log[j].ev = "entry" /\ step_log[j].why = "filled"
       /\ step_log[j].i < step_log[i].i
       /\ Last(step_log).ev = "mark"

\* the stop of a position as the trailing update of step t_idx leaves it
StopNow(pos) == UpdateTrailing(pos, PricesNow(t_idx)[pos.product]).stop_px

\* the bracket positions that the close of step t_idx takes to their stop or
\* to their target
Hits ==
    {i \in 1..Len(port.positions) :
       LET pos == port.positions[i]
           px == PricesNow(t_idx)[pos.product]
       IN  pos.name # PM /\ (px <= StopNow(pos) \/ px >= pos.target_px)}

\* C8: a bracket position is closed at step t exactly when the close of t is
\* <= its stop, as updated by trailing in that step, or >= its target; the
\* fill is the threshold (stop or target) with sell costs applied, not the
\* close; the position is removed and one EXIT row appended.
C8_ExitAtThreshold ==
    [][ pc = "exits" =>
          /\ \A i \in 1..Len(port.positions) :
                (i \in Hits) <=> ~Has(port'.positions, port.positions[i].product)
          /\ Len(trades') = Len(trades) + Cardinality(Hits)
          /\ SubSeq(trades', 1, Len(trades)) = trades
          /\ \A i \in Hits :
                LET pos == port.positions[i]
                    px == PricesNow(t_idx)[pos.product]
                    stopped == px <= StopNow(pos)
                IN  \E k \in (Len(trades) + 1)..Len(trades') :
                       /\ trades'[k].product = pos.product
                       /\ trades'[k].side = "EXIT"
                       /\ trades'[k].ts = t_idx
                       /\ trades'[k].qty = 0 - pos.qty
                       /\ trades'[k].reason = IF stopped THEN "stop" ELSE "target"
                       /\ trades'[k].price =
                             ApplyFeesSlippage(IF stopped THEN StopNow(pos)
                                               ELSE pos.target_px, "sell") ]_vars

\* a stop exit has been logged on a bar that closed below the stop, at a
\* price that is not the close of that bar less costs
C8_Witness ==
    \E k \in 1..Len(trades) :
       /\ trades[k].side = "EXIT" /\ trades[k].reason = "stop"
       /\ trades[k].price #
             ApplyFeesSlippage(dfs[trades[k].product][trades[k].ts].close, "sell")

\* C9: after the last timestamp run() liquidates every position still open,
\* rebalance holdings too, each with one EXIT row of reason final priced at
\* the last close less sell costs, and re-marks the last equity point once:
\* the positions mapping is empty and the last equity point equals cash.
C9_FinalLiquidation ==
    [][ pc = "final" =>
          /\ pc' = "done"
          /\ port'.positions = <<>>
          /\ Len(trades') = Len(trades) + Len(port.positions)
          /\ SubSeq(trades', 1, Len(trades)) = trades
          /\ \A i \in 1..Len(port.positions) :
                LET pos == port.positions[i]
                    row == trades'[Len(trades) + i]
                IN  /\ row.product = pos.product
                    /\ row.side = "EXIT" /\ row.reason = "final"
                    /\ row.ts = NBars
                    /\ row.qty = 0 - pos.qty
                    /\ row.price = ApplyFeesSlippage(dfs[pos.product][NBars].close, "sell")
          /\ Len(eq_curve') = Len(eq_curve)
          /\ Last(eq_curve') = port'.cash ]_vars

\* run() has returned after liquidating a bracket position and a rebalance
\* holding
C9_Witness ==
    /\ pc = "done"
    /\ port.positions = <<>>
    /\ \E k \in 1..Len(trades) : trades[k].reason = "final" /\ trades[k].name = PM
    /\ \E k \in 1..Len(trades) : trades[k].reason = "final" /\ trades[k].name # PM

\* the signal the entry loop is about to apply, if any
PendingEntry == NextOfType(signals, sig_i, "entry")

\* the entry loop leaves cash, positions and the trade log as they are when
\* the notional of the pending entry exceeds cash
EntryOverCashRejected ==
    (pc = "entries" /\ PendingEntry <= Len(signals)) =>
       LET s == signals[PendingEntry]
           p == s.product_id
           reached == /\ s.side = "buy"
                      /\ ~(Has(port.positions, p) /\ Get(port.positions, p).name # PM)
                      /\ ~PriceAtRaises(t_idx, "entry")
           fill_px == ApplyFeesSlippage(PriceAt(p, t_idx, "entry"), "buy")
           qty == SizePosition(Valuation(port, PricesNow(t_idx)), fill_px, s.stop)
       IN  (reached /\ Mul(qty, fill_px) > port.cash) =>
              /\ port'.cash = port.cash
              /\ port'.positions = port.positions
              /\ trades' = trades

\* the buy legs of the rebalance signal applied by this step
NewLegs ==
    IF pc = "rebalance" /\ Len(step_log') > Len(step_log)
    THEN Last(step_log').legs ELSE <<>>

BreakevenOnly(pos, px) ==
    IF Div(px - pos.entry_px, Max(Eps, pos.entry_px - pos.stop_px)) >= breakeven_after_R
    THEN Max(pos.stop_px, pos.entry_px) ELSE pos.stop_px

\* C16: a bracket position opened with an ATR that is zero or negative has
\* trailing disabled: at every later step its stop moves only through the
\* breakeven rule, and the position is not closed with reason stop unless the
\* close is at or below that stop.
C16_ZeroAtrNoTrailing ==
    [][ pc = "exits" =>
          \A i \in 1..Len(port.positions) :
             LET pos == port.positions[i]
                 px == PricesNow(t_idx)[pos.product]
             IN  (pos.name # PM /\ pos.atr <= 0) =>
                    /\ Has(port'.positions, pos.product) =>
                          Get(port'.positions, pos.product).stop_px = BreakevenOnly(pos, px)
                    /\ \A k \in (Len(trades) + 1)..Len(trades') :
                          (trades'[k].product = pos.product /\ trades'[k].reason = "stop")
                             => px <= BreakevenOnly(pos, px) ]_vars

\* the price the fill-timing policy names for a fill at step t
PolicyPrice(p, t) ==
    IF fill_when = "next" /\ t + 1 <= TimeIndexLen
    THEN dfs[p][t + 1].open ELSE dfs[p][t].close

\* C17: an entry signal whose fill price equals its stop price is rejected
\* without raising: _size_position yields quantity 0, the signal fails the
\* minimum-notional check, and cash, positions, turnover and the trade log
\* stay as they were.
C17_ZeroRiskEntryRejected ==
    [][ (pc = "entries" /\ PendingEntry <= Len(signals)) =>
          LET s == signals[PendingEntry]
              p == s.product_id
              considered == /\ s.side = "buy"
                            /\ ~(Has(port.positions, p) /\ Get(port.positions, p).name # PM)
              fill_px == ApplyFeesSlippage(PolicyPrice(p, t_idx), "buy")
          IN  (considered /\ fill_px = s.stop) =>
                 /\ pc' # "raised"
                 /\ SizePosition(Valuation(port, PricesNow(t_idx)), fill_px, s.stop) = 0
                 /\ Last(step_log').why = "small"
                 /\ port'.cash = port.cash
                 /\ port'.positions = port.positions
                 /\ port'.turnover = port.turnover
                 /\ trades' = trades ]_vars

\* C18: for every calendar day covered by the run, the value of the daily
\* curve for that day is the last point of the full equity curve that falls
\* on the day, the re-mark after final liquidation included.
C18_DailyIsLastOfDay ==
    \A d \in 1..NDays :
       LET ts == {t \in 1..Len(eq_curve) : Day(t) = d}
       IN  ts # {} =>
              daily_marks[d] = eq_curve[CHOOSE t \in ts : \A u \in ts : u <= t]

\* the rows a step has appended to the trade log
NewRows == SubSeq(trades', Len(trades) + 1, Len(trades')) 

\* C20: one rebalance signal applied to an all-cash portfolio of equity E
\* buys, for every targeted asset whose target E x w reaches the minimum
\* notional, a rebalance holding whose cost notional is E x w within the
\* minimum-notional tolerance, logs every leg as REBAL_BUY, and leaves
\* cash = E - the bought notionals >= 0.
C20_RebalanceFromCash ==
    [][ (/\ pc = "rebalance"
         /\ NextOfType(signals, sig_i, "rebalance") <= Len(signals)
         /\ port.positions = <<>>) =>
          LET s == signals[NextOfType(signals, sig_i, "rebalance")]
              E == port.cash
              tw == s.target_weights
              cost(k) == Mul(NewRows[k].qty, NewRows[k].price)
          IN  /\ pc' # "raised"
              /\ \A k \in 1..Len(NewRows) : NewRows[k].side = "REBAL_BUY"
              /\ \A i \in 1..Len(tw) :
                    Mul(E, tw[i][2]) >= min_notional =>
                       /\ \E k \in 1..Len(NewRows) :
                             /\ NewRows[k].product = tw[i][1]
                             /\ Abs(cost(k) - Mul(E, tw[i][2])) < min_notional
                       /\ IsPM(port'.positions, tw[i][1])
              /\ port'.cash = E - SeqSum([k \in 1..Len(NewRows) |-> cost(k)])
              /\ port'.cash >= 0 ]_vars

\* C11: in the paper simulator, cash is >= 0 after every place() and every
\* try_exit(), along any sequence of long and short entries and exits.
C11_SimCashNonNegative == pb_cash >= 0

\* C19: the equity history of simulate() holds exactly one point per
\* timestamp of the simulated index: never two for a timestamp, and one for
\* each when simulate() returns.
C19_OnePointPerTimestamp ==
    /\ \A t \in 1..SimBars :
          Cardinality({i \in 1..Len(pb_hist) : pb_hist[i].t = t}) <= 1
    /\ sim_pc = "done" =>
          \A t \in 1..SimBars :
             Cardinality({i \in 1..Len(pb_hist) : pb_hist[i].t = t}) = 1

\* the clipped intersection of the timestamps of all configured assets
ConfiguredIndex ==
    {ts \in BootTimes : /\ \A q \in Range(boot.products) : ts \in boot.bars[q]
                        /\ boot.start # 0 => ts >= boot.start}

\* C12: when a configured asset has zero bars or the timestamp intersection
\* (also after start/end clipping) is empty, the construction of the
\* DataPortal fails with a data error: the loop is never entered, and the run
\* neither fails later nor ends with a result.
C12_DataErrorAtConstruction ==
    (/\ boot.pc \notin {"idle", "main"}
     /\ boot.products # <<>>
     /\ \/ \E q \in Range(boot.products) : boot.bars[q] = {}
        \/ ConfiguredIndex = {})
    => /\ boot.pc = "failed"
       /\ boot.at = "construct"
       /\ boot.steps = 0

\* C13: an unknown adapter name, an empty asset list or a non-positive
\* initial cash aborts the run with an error before the first loop step, and
\* none of the three output files is written.
C13_ConfigErrorAborts ==
    (/\ boot.pc \notin {"idle", "main"}
     /\ \/ \E i \in 1..Len(boot.adapters) : boot.adapters[i] \notin ADAPTERS
        \/ boot.products = <<>>
        \/ boot.initial_cash <= 0)
    => /\ boot.steps = 0
       /\ boot.files = {}
       /\ boot.pc \notin {"final", "written"}

\* C14: two engines running in threads share no mutable state: every window
\* the strategy code of an engine reads during on_bar(t) is the window of
\* that engine's own portal through t, and when a run has returned, the
\* trade log and the equity curves it persisted hold that run's data.
C14_EnginesIsolated ==
    \A e \in DOMAIN th :
       /\ \A r \in th[e].reads : r.eng = e /\ r.t = r.own
       /\ th[e].pc = "done" => \A f \in DOMAIN state_files : state_files[f] = e

\* C15: two portfolio builds on identical configuration and price data (hence
\* on the same blend of the base models) emit identical rebalance signals,
\* whatever earlier runs persisted and whatever the wall-clock time.
C15_SameDataSameSignal ==
    \A i, j \in 1..Len(built) :
       built[i].blend = built[j].blend
       => built[i].target_weights = built[j].target_weights

\* the pending entry signal meets one of the skip conditions of the entry
\* loop, its fill price being the one the fill policy names
PendingEntrySkipped ==
    /\ pc = "entries"
    /\ PendingEntry <= Len(signals)
    /\ LET s == signals[PendingEntry]
           p == s.product_id
           fill_px == ApplyFeesSlippage(PolicyPrice(p, t_idx), "buy")
           qty == SizePosition(Valuation(port, PricesNow(t_idx)), fill_px, s.stop)
           notional == Mul(qty, fill_px)
       IN  \/ s.side # "buy"
           \/ Has(port.positions, p) /\ Get(port.positions, p).name # PM
           \/ qty <= 0
           \/ notional < min_notional
           \/ notional > port.cash

\* C21: when an entry signal is skipped (side not buy, bracket already held,
\* quantity <= 0, notional below the minimum, notional above cash), nothing
\* is raised, cash, positions, turnover and the trade log stay as they were,
\* and the entry loop goes on with the remaining signals.
C21_SkippedEntryNoEffect ==
    [][ PendingEntrySkipped =>
          /\ pc' = "entries"
          /\ sig_i' = PendingEntry + 1
          /\ port'.cash = port.cash
          /\ port'.positions = port.positions
          /\ port'.turnover = port.turnover
          /\ trades' = trades ]_vars

\* C22: every entry of the positions mapping has quantity > 0 at every point
\* of the run: no fill creates or leaves an entry with quantity <= 0, and a
\* rebalance sell that takes a holding to zero removes its entry.
C22_PositionsPositive ==
    \A i \in 1..Len(port.positions) : port.positions[i].qty > 0

\* a rebalance sell leg (REBAL_SELL) has sold a whole holding, whose entry
\* is gone, and another position is held
C22_Witness ==
    /\ \E i \in 1..Len(trades) :
          /\ trades[i].side = "REBAL_SELL"
          /\ ~Has(port.positions, trades[i].product)
    /\ port.positions # <<>>
    /\ pc = "mark"

\* the stop a bracket position was opened with: the adapter put it 2 ATR
\* under the close of the bar it signalled on
InitialStop(pos) == dfs[pos.product][pos.opened_ts].close - 2 * pos.atr

\* C23: the breakeven rule is measured against the initial risk (entry price
\* minus the stop at entry time): when close - entry reaches
\* breakeven_after_R x initial risk the updated stop is >= the entry price,
\* and the breakeven rule lifts a stop to the entry price only then.
C23_BreakevenOnInitialRisk ==
    pc = "exits" =>
       \A i \in 1..Len(port.positions) :
          LET pos == port.positions[i]
              px == PricesNow(t_idx)[pos.product]
              gain == px - pos.entry_px
              initial_risk == pos.entry_px - InitialStop(pos)
              trailed == Max(pos.stop_px, px - Mul(trail_atr_mult, pos.atr))
              upd == UpdateTrailing(pos, px)
          IN  (pos.name # PM /\ initial_risk > 0) =>
                 /\ gain >= Mul(breakeven_after_R, initial_risk)
                       => upd.stop_px >= pos.entry_px
                 /\ (trailed < pos.entry_px /\ upd.stop_px >= pos.entry_px)
                       => gain >= Mul(breakeven_after_R, initial_risk)

\* position of an adapter in the registration order (0: not registered)
AdIndex(name) ==
    IF \E a \in 1..Len(adapters) : adapters[a] = name
    THEN CHOOSE a \in 1..Len(adapters) : adapters[a] = name ELSE 0

\* the entry signals on product p already filled in the current step
FilledEarlier(p) ==
    {step_log[k].i : k \in {k \in 1..Len(step_log) :
                               /\ step_log[k].ev = "entry"
                               /\ step_log[k].why = "filled"
                               /\ signals[step_log[k].i].product_id = p}}

\* C24: entry signals of one step are processed in adapter-registration
\* order: when an earlier-registered adapter's entry on an asset has been
\* accepted, a later adapter's entry on that asset is skipped and the
\* position keeps the earlier adapter's name, stop and target; a later signal
\* opens the position only if no earlier one was accepted.
C24_RegistrationOrder ==
    [][ (pc = "entries" /\ PendingEntry <= Len(signals)) =>
          LET i == PendingEntry
              s == signals[i]
              p == s.product_id
          IN  /\ \A j \in 1..(i - 1) :
                    signals[j].type = "entry" => AdIndex(signals[j].name) <= AdIndex(s.name)
              /\ \A j \in FilledEarlier(p) :
                    /\ j < i
                    /\ Last(step_log').why = "held"
                    /\ port'.positions = port.positions
                    /\ Get(port'.positions, p).name = signals[j].name
                    /\ Get(port'.positions, p).stop_px = signals[j].stop
                    /\ Get(port'.positions, p).target_px = signals[j].target
              /\ Last(step_log').why = "filled" =>
                    /\ FilledEarlier(p) = {}
                    /\ Get(port'.positions, p).name = s.name
                    /\ Get(port'.positions, p).stop_px = s.stop
                    /\ Get(port'.positions, p).target_px = s.target ]_vars

\* both adapters signalled an entry on the same asset with different stops:
\* the first-registered adapter's was filled and the other one skipped
C24_Witness ==
    /\ Len(signals) = 2
    /\ signals[1].type = "entry" /\ signals[2].type = "entry"
    /\ signals[1].name = adapters[1] /\ signals[2].name = adapters[2]
    /\ signals[1].product_id = signals[2].product_id
    /\ signals[1].stop # signals[2].stop
    /\ \E k \in 1..Len(step_log) :
          step_log[k].ev = "entry" /\ step_log[k].i = 1 /\ step_log[k].why = "filled"
    /\ Last(step_log).ev = "entry" /\ Last(step_log).i = 2 /\ Last(step_log).why = "held"
    /\ Get(port.positions, signals[1].product_id).name = adapters[1]

\* C25: compute_metrics reports Calmar as +infinity (not not-a-number) when
\* the equity curve never falls below its running maximum, and as
\* total_return / |max_drawdown| otherwise; the reported maximum drawdown is
\* never positive.
NeverBelowMax(curve) == \A i \in 1..Len(curve) : curve[i] >= CumMax(curve, i)

\* total_return / |max_drawdown| of a curve that has a drawdown, in 1e-3
CalmarRatio(curve) ==
    LET n == Len(curve)
        k == CHOOSE i \in 1..n : \A j \in 1..n :
                 curve[i] * CumMax(curve, j) <= curve[j] * CumMax(curve, i)
    IN  RDiv((curve[n] - curve[1]) * CumMax(curve, k) * Round3,
             curve[1] * (CumMax(curve, k) - curve[k]))

C25_CalmarInfinite ==
    met.pc = "done" =>
        /\ met.out.MaxDrawdown <= 0
        /\ IF NeverBelowMax(met.equity_curve)
           THEN met.out.Calmar = Inf
           ELSE met.out.Calmar = Num(CalmarRatio(met.equity_curve))

\* C26: the number of simultaneously open bracket positions never exceeds
\* RiskModel.max_positions.
BracketPositions(ps) == {i \in 1..Len(ps) : ps[i].name # PM}

C26_MaxPositions == Cardinality(BracketPositions(port.positions)) <= max_positions

\* C27: applying a rebalance signal never alters or removes a bracket
\* position: its quantity, entry price, stop, target and name are the same
\* after the rebalance step as before it.
BracketKept(ps, qs) ==
    \A i \in BracketPositions(ps) :
        /\ Has(qs, ps[i].product)
        /\ Get(qs, ps[i].product) = ps[i]

C27_RebalanceKeepsBrackets ==
    [][(pc = "rebalance" /\ pc' # "raised")
           => BracketKept(port.positions, port'.positions)]_vars

\* C28: after one rebalance signal is applied to a portfolio that holds
\* rebalance positions and no bracket position, the holding of every
\* targeted asset, valued at the prices of the step, is within the
\* minimum-notional floor plus costs of equity times its weight, whatever
\* the order of the assets in target_weights.
\* the share of a traded notional that fees, slippage and the distance from
\* the close to the fill price can take, for either side
CostShare(p, t) ==
    LET px == PricesNow(t)[p]
        buy == ApplyFeesSlippage(PolicyPrice(p, t), "buy")
        sell == ApplyFeesSlippage(PolicyPrice(p, t), "sell")
    IN  Div(Max(Abs(buy - px), Abs(sell - px)), px) + 1

PendingRebalance == NextOfType(signals, sig_i, "rebalance")

C28_RebalanceReachesTargets ==
    [][(/\ pc = "rebalance"
        /\ PendingRebalance <= Len(signals)
        /\ port.positions # <<>>
        /\ BracketPositions(port.positions) = {}
        /\ pc' # "raised")
       => LET tw == signals[PendingRebalance].target_weights
              prices == PricesNow(t_idx)
              equity == Valuation(port, prices)
          IN  \A k \in 1..Len(tw) :
                 LET p == tw[k][1]
                     targ == Mul(equity, tw[k][2])
                     held == IF Has(port'.positions, p)
                             THEN Mul(Get(port'.positions, p).qty, prices[p])
                             ELSE 0
                     tol == min_notional + Mul(equity, CostShare(p, t_idx))
                                + prices[p]
                 IN  Abs(held - targ) <= tol]_vars

\* C29: an accepted PaperBroker.place on a product with no open position,
\* long or short, changes the marked-to-market equity at the entry price
\* only by the transaction cost (the distance from the entry price to the
\* fill price times the size): equity does not jump by the notional.
C29_PlaceCostsOnly ==
    [][(/\ Len(pb_calls') = Len(pb_calls) + 1
        /\ Last(pb_calls').op = "place"
        /\ Last(pb_calls').ok
        /\ pb_positions[Last(pb_calls').pid] = NoPos)
       => LET c == Last(pb_calls')
              \* the entry price of the call: its stop was put 1.00 away
              entry == pb_positions'[c.pid].stop
                           + (IF c.side = "long" THEN 100 ELSE 0 - 100)
              prices == [pid \in PbProducts |-> entry]
              before == MarkEquity(pb_cash, pb_positions, prices)
              after == MarkEquity(pb_cash', pb_positions', prices)
              tcost == Mul(Abs(c.fill - entry), c.size)
          IN  Abs(after - before) <= tcost + 2]_vars

\* C30: once add_bracket and manage_brackets have both returned, every
\* bracket record an add_bracket appended is in brackets.json, and every
\* record manage_brackets saved with a new stop or active flag is in the
\* file as it saved it, whatever the interleaving of the two processes.
InFile(rec) == \E i \in 1..Len(brk_file) : brk_file[i] = rec

C30_NoLostBracket ==
    (brk_add.pc = "idle" /\ brk_mgr.pc = "idle") =>
        /\ \A cid \in brk_hist.added :
              \E i \in 1..Len(brk_file) : brk_file[i].client_order_id = cid
        /\ \A u \in brk_hist.saved : InFile(u)

====
